---- MODULE Spec2Model ----
(***************************************************************************)
(* Suspension geometry engine of the race-team application                 *)
(* (src/views/roll_centres.py): front instant-centre solver, rear          *)
(* upper-link projection, spring / wheel-rate / ride-frequency             *)
(* conversions, camber-gain table and travel sweep.                        *)
(*                                                                         *)
(* Numbers.  A Python float is modelled by the exact rational it denotes   *)
(* on the inputs used here: a pair <<n, d>> in lowest terms with d > 0.    *)
(* round(x, k) is round-half-to-even at 10^-k.  sqrt, atan2 and pi are     *)
(* evaluated in fixed point on wide naturals (little-endian sequences of   *)
(* base-10^4 limbs), far below the last rounded digit the code returns.    *)
(* An optional value is a sequence: <<>> is None, <<v>> is the value v.    *)
(***************************************************************************)
EXTENDS Integers, Sequences, FiniteSets, TLC

----------------------------------------------------------------------------
(* Exact rationals                                                         *)

Abs(x) == IF x < 0 THEN -x ELSE x

Sign(x) == IF x < 0 THEN -1 ELSE IF x > 0 THEN 1 ELSE 0

RECURSIVE GCD(_, _)
GCD(a, b) == IF b = 0 THEN a ELSE GCD(b, a % b)

Rat(n, d) ==
    LET g == GCD(Abs(n), Abs(d))
        s == IF d < 0 THEN -1 ELSE 1
    IN  << (s * n) \div g, (s * d) \div g >>

RInt(i) == << i, 1 >>
Zero == RInt(0)

RAdd(a, b) == Rat(a[1] * b[2] + b[1] * a[2], a[2] * b[2])
RSub(a, b) == Rat(a[1] * b[2] - b[1] * a[2], a[2] * b[2])
RMul(a, b) == Rat(a[1] * b[1], a[2] * b[2])
RDiv(a, b) == Rat(a[1] * b[2], a[2] * b[1])
RNeg(a)    == << -a[1], a[2] >>
RAbs(a)    == << Abs(a[1]), a[2] >>
RLt(a, b)  == a[1] * b[2] < b[1] * a[2]
RLe(a, b)  == a[1] * b[2] <= b[1] * a[2]
RPos(a)    == a[1] > 0

RECURSIVE Pow10(_)
Pow10(k) == IF k = 0 THEN 1 ELSE 10 * Pow10(k - 1)

\* abs(r) < 10^-k, computed without forming n * 10^k
AbsLtPow(r, k) == Abs(r[1]) <= (r[2] - 1) \div Pow10(k)

\* Python round(r, k): nearest multiple of 10^-k, ties to the even one
Round(r, k) ==
    LET p   == Pow10(k)
        num == r[1] * p
        q   == num \div r[2]
        rem == num % r[2]
        up  == \/ 2 * rem > r[2]
               \/ (2 * rem = r[2] /\ q % 2 = 1)
    IN  Rat(IF up THEN q + 1 ELSE q, p)

----------------------------------------------------------------------------
(* Wide naturals: little-endian limbs in base 10^4, no leading zero limb   *)

LimbBase == 10 ^ 4

RECURSIVE BNorm(_)
BNorm(a) ==
    IF a = <<>> THEN <<>>
    ELSE IF a[Len(a)] = 0 THEN BNorm(SubSeq(a, 1, Len(a) - 1)) ELSE a

RECURSIVE BFromInt(_)
BFromInt(n) ==
    IF n = 0 THEN <<>>
    ELSE << n % LimbBase >> \o BFromInt(n \div LimbBase)

RECURSIVE BAddC(_, _, _)
BAddC(a, b, c) ==
    IF a = <<>> /\ b = <<>>
    THEN IF c = 0 THEN <<>> ELSE << c >>
    ELSE LET x == IF a = <<>> THEN 0 ELSE Head(a)
             y == IF b = <<>> THEN 0 ELSE Head(b)
             s == x + y + c
         IN  << s % LimbBase >>
             \o BAddC(IF a = <<>> THEN a ELSE Tail(a),
                      IF b = <<>> THEN b ELSE Tail(b), s \div LimbBase)

BAdd(a, b) == BAddC(a, b, 0)

\* a - b for a >= b
RECURSIVE BSubC(_, _, _)
BSubC(a, b, c) ==
    IF a = <<>> THEN <<>>
    ELSE LET y == IF b = <<>> THEN 0 ELSE Head(b)
             s == Head(a) - y - c
         IN  << IF s < 0 THEN s + LimbBase ELSE s >>
             \o BSubC(Tail(a), IF b = <<>> THEN b ELSE Tail(b),
                      IF s < 0 THEN 1 ELSE 0)

BSub(a, b) == BNorm(BSubC(a, b, 0))

\* a * m for 0 <= m < 200000
RECURSIVE BMulSmallC(_, _, _)
BMulSmallC(a, m, c) ==
    IF a = <<>> THEN BFromInt(c)
    ELSE LET p == Head(a) * m + c
         IN  << p % LimbBase >> \o BMulSmallC(Tail(a), m, p \div LimbBase)

BMulSmall(a, m) == BNorm(BMulSmallC(a, m, 0))

RECURSIVE BMul(_, _)
BMul(a, b) ==
    IF a = <<>> \/ b = <<>> THEN <<>>
    ELSE BNorm(BAdd(BMulSmall(a, Head(b)), << 0 >> \o BMul(a, Tail(b))))

BOfInt(n) == BFromInt(Abs(n))
BSq(a) == BMul(a, a)

RECURSIVE BCmpFrom(_, _, _)
BCmpFrom(a, b, i) ==
    IF i = 0 THEN 0
    ELSE IF a[i] < b[i] THEN -1
    ELSE IF a[i] > b[i] THEN 1
    ELSE BCmpFrom(a, b, i - 1)

BCmp(a, b) ==
    IF Len(a) < Len(b) THEN -1
    ELSE IF Len(a) > Len(b) THEN 1
    ELSE BCmpFrom(a, b, Len(a))

BLe(a, b) == BCmp(a, b) <= 0

\* floor(a / m) for 0 < m < 200000, from the most significant limb down
RECURSIVE BDivSmallFrom(_, _, _, _)
BDivSmallFrom(a, m, i, r) ==
    IF i = 0 THEN <<>>
    ELSE LET cur == r * LimbBase + a[i]
         IN  BDivSmallFrom(a, m, i - 1, cur % m) \o << cur \div m >>

BDivSmall(a, m) == BNorm(BDivSmallFrom(a, m, Len(a), 0))

\* floor(a / LimbBase^k) and a * LimbBase^k
BShr(a, k) == IF Len(a) <= k THEN <<>> ELSE SubSeq(a, k + 1, Len(a))
BShl(a, k) == IF a = <<>> THEN <<>> ELSE [i \in 1..k |-> 0] \o a

\* the largest q in lo..hi with q * d <= n  (lo satisfies it)
RECURSIVE BQuotIn(_, _, _, _)
BQuotIn(n, d, lo, hi) ==
    IF lo = hi THEN lo
    ELSE LET mid == lo + (hi - lo + 1) \div 2
         IN  IF BLe(BMul(d, BFromInt(mid)), n)
             THEN BQuotIn(n, d, mid, hi)
             ELSE BQuotIn(n, d, lo, mid - 1)

\* the largest s in lo..hi with s^2 * d <= n  (lo satisfies it)
RECURSIVE BRootIn(_, _, _, _)
BRootIn(n, d, lo, hi) ==
    IF lo = hi THEN lo
    ELSE LET mid == lo + (hi - lo + 1) \div 2
         IN  IF BLe(BMul(d, BSq(BFromInt(mid))), n)
             THEN BRootIn(n, d, mid, hi)
             ELSE BRootIn(n, d, lo, mid - 1)

SearchTop == 10 ^ 9

\* round(n / d) for wide n >= 0, d > 0, ties to even
BRoundDiv(n, d) ==
    LET q   == BQuotIn(n, d, 0, SearchTop)
        rem == BSub(n, BMul(d, BFromInt(q)))
        c   == BCmp(BMulSmall(rem, 2), d)
    IN  IF c > 0 \/ (c = 0 /\ q % 2 = 1) THEN q + 1 ELSE q

\* round(sqrt(n / d)) for wide n >= 0, d > 0
BRoundSqrt(n, d) == (BRootIn(BMulSmall(n, 4), d, 0, SearchTop) + 1) \div 2

----------------------------------------------------------------------------
(* math.pi, math.atan2, math.degrees in fixed point: a wide natural x      *)
(* stands for x / 10^12; a signed one is <<sign, magnitude>>.              *)

FixLimbs == 3

\* math.pi * 10^12
PiFix == << 3590, 9265, 1415, 3 >>

FixMul(a, b) == BShr(BMul(a, b), FixLimbs)

\* p / q in fixed point, for naturals p and 0 < q < 200000
FixQuot(p, q) == BDivSmall(BShl(BFromInt(p), FixLimbs), q)

\* x - x^3/3 + x^5/5 - ... ; t is x^(2k+1): <<sum of the added terms,
\* sum of the subtracted terms>>
RECURSIVE ATanTerms(_, _, _, _, _)
ATanTerms(t, x2, k, pos, neg) ==
    IF t = <<>> THEN << pos, neg >>
    ELSE LET term == BDivSmall(t, 2 * k + 1)
         IN  ATanTerms(FixMul(t, x2), x2, k + 1,
                       IF k % 2 = 0 THEN BAdd(pos, term) ELSE pos,
                       IF k % 2 = 1 THEN BAdd(neg, term) ELSE neg)

ATanSeries(x) ==
    LET pn == ATanTerms(x, FixMul(x, x), 0, <<>>, <<>>)
    IN  BSub(pn[1], pn[2])

\* atan(p / q) for naturals p <= q, q > 0; above 2/5 through
\* atan(x) = pi/4 - atan((1 - x) / (1 + x))
ATanUnit(p, q) ==
    IF 5 * p > 2 * q
    THEN BSub(BDivSmall(PiFix, 4), ATanSeries(FixQuot(q - p, q + p)))
    ELSE ATanSeries(FixQuot(p, q))

\* atan(p / q) for naturals p, q not both 0
ATanQ(p, q) ==
    IF p > q THEN BSub(BDivSmall(PiFix, 2), ATanUnit(q, p))
    ELSE ATanUnit(p, q)

WNeg(a) == << -a[1], a[2] >>

WAdd(a, b) ==
    IF a[1] = 0 \/ a[2] = <<>> THEN b
    ELSE IF b[1] = 0 \/ b[2] = <<>> THEN a
    ELSE IF a[1] = b[1] THEN << a[1], BAdd(a[2], b[2]) >>
    ELSE LET c == BCmp(a[2], b[2])
         IN  IF c = 0 THEN << 0, <<>> >>
             ELSE IF c > 0 THEN << a[1], BSub(a[2], b[2]) >>
             ELSE << b[1], BSub(b[2], a[2]) >>

WSub(a, b) == WAdd(a, WNeg(b))

\* math.atan2(y, x) for rationals y, x
Atan2(y, x) ==
    LET p0 == Abs(y[1]) * x[2]
        q0 == Abs(x[1]) * y[2]
        g  == GCD(p0, q0)
        a  == ATanQ(p0 \div g, q0 \div g)
    IN  IF y[1] = 0 /\ x[1] = 0 THEN << 0, <<>> >>
        ELSE IF x[1] > 0 THEN << Sign(y[1]), a >>
        ELSE IF y[1] >= 0 THEN << 1, BSub(PiFix, a) >>
        ELSE << -1, BSub(PiFix, a) >>

\* round(math.degrees(w), 3) for a signed fixed-point angle w
DegreesRound3(w) ==
    Rat(w[1] * BRoundDiv(BMulSmall(w[2], 180000), PiFix), 1000)

----------------------------------------------------------------------------
(* Optional values and small helpers                                       *)

None == <<>>
Some(v) == << v >>
IsNone(o) == o = <<>>
Val(o) == o[1]

\* abs(r) > 10^-k
AbsGtPow(r, k) == Abs(r[1]) > r[2] \div Pow10(k)

RECURSIVE BProd(_)
BProd(s) == IF s = <<>> THEN << 1 >> ELSE BMul(BOfInt(Head(s)), BProd(Tail(s)))

\* round(math.sqrt(a^2 + b^2), 2) for rationals a, b
HypotRound2(a, b) ==
    LET n == BAdd(BProd(<< a[1], a[1], b[2], b[2] >>),
                  BProd(<< b[1], b[1], a[2], a[2] >>))
        d == BProd(<< a[2], a[2], b[2], b[2] >>)
    IN  Rat(BRoundSqrt(BMulSmall(n, 10000), d), 100)

----------------------------------------------------------------------------
(* FRONT GEOMETRY  (double A-arm, front-view instant-centre method)        *)

INNER_X == 4

\* variant: the upper outer pivot follows the full wheel travel
UcaTravelShare_Full == Rat(1, 1)

\* the share of wheel travel the upper outer pivot follows
UcaTravelShare == Rat(85, 100)

\* the result when half_track is the inner-pivot offset (arms span no width)
ZeroSpanResult(lo_h, uo_h) ==
    [ic_x |-> None, ic_y |-> None, rc_y |-> None, fvsa |-> None, camber |-> Zero, lca_outer_h |-> lo_h, uca_outer_h |-> uo_h]

\* variant: parallel arms answered with the zero-span result (no roll centre)
ParallelArmsResult_NoRc(lo_h, uo_h) ==
    [ic_x |-> None, ic_y |-> None, rc_y |-> None, fvsa |-> None, camber |-> Zero, lca_outer_h |-> lo_h, uca_outer_h |-> uo_h]

\* the result for parallel arms: no instant centre, roll centre at ground
ParallelArmsResult(lo_h, uo_h) ==
    [ic_x |-> None, ic_y |-> None, rc_y |-> Some(Zero), fvsa |-> None, camber |-> Zero, lca_outer_h |-> lo_h, uca_outer_h |-> uo_h]

\* variant: the interpolation parameter taken from the centreline instead of
\* from the contact patch (contact_x / dx_ic for (0 - contact_x) / dx_ic)
CentrelineCrossing_Sign(ic_x, ic_y, contact_x) ==
    LET dx_ic == RSub(ic_x, contact_x)
        dy_ic == ic_y
    IN  IF AbsGtPow(dx_ic, 9)
        THEN RMul(RDiv(contact_x, dx_ic), dy_ic)
        ELSE ic_y

\* where the line from the contact patch (contact_x, 0) through the instant
\* centre crosses x = 0; the instant centre's height when that line is vertical
CentrelineCrossing(ic_x, ic_y, contact_x) ==
    LET dx_ic == RSub(ic_x, contact_x)
        dy_ic == ic_y
    IN  IF AbsGtPow(dx_ic, 9)
        THEN RMul(RDiv(RNeg(contact_x), dx_ic), dy_ic)
        ELSE ic_y

\* round(fvsa, 2) if fvsa else None
FvsaOrNone(dx_ic, dy_ic) ==
    IF dx_ic = Zero /\ dy_ic = Zero THEN None ELSE Some(HypotRound2(dx_ic, dy_ic))

_front_view_ic(lca_len, uca_len, lca_inner_h, lca_outer_h, uca_inner_h, uca_outer_h, half_track, bump_in) ==
    LET outer_x == half_track
        lo_h    == RAdd(lca_outer_h, bump_in)
        uo_h    == RAdd(uca_outer_h, RMul(bump_in, UcaTravelShare))
        lca_dx  == RSub(outer_x, RInt(INNER_X))
        lca_dy  == RSub(lo_h, lca_inner_h)
        uca_dx  == RSub(outer_x, RInt(INNER_X))
        uca_dy  == RSub(uo_h, uca_inner_h)
    IN  IF AbsLtPow(lca_dx, 9) THEN ZeroSpanResult(lo_h, uo_h)
        ELSE
        LET m_lca      == RDiv(lca_dy, lca_dx)
            m_uca      == RDiv(uca_dy, uca_dx)
            slope_diff == RSub(m_lca, m_uca)
        IN  IF AbsLtPow(slope_diff, 9) THEN ParallelArmsResult(lo_h, uo_h)
            ELSE
            LET ic_x      == RAdd(RInt(INNER_X), RDiv(RSub(uca_inner_h, lca_inner_h), slope_diff))
                ic_y      == RAdd(lca_inner_h, RMul(m_lca, RSub(ic_x, RInt(INNER_X))))
                contact_x == half_track
                rc_y      == CentrelineCrossing(ic_x, ic_y, contact_x)
                lca_angle == Atan2(lca_dy, lca_dx)
                uca_angle == Atan2(uca_dy, uca_dx)
            IN  [ic_x |-> Some(Round(ic_x, 2)),
                 ic_y |-> Some(Round(ic_y, 2)),
                 rc_y |-> Some(Round(rc_y, 3)),
                 fvsa |-> FvsaOrNone(RSub(ic_x, contact_x), ic_y),
                 camber |-> DegreesRound3(WSub(uca_angle, lca_angle)),
                 lca_outer_h |-> lo_h,
                 uca_outer_h |-> uo_h]

\* variant: the solver's rc_y handed on without the fallback to 0.0
_calc_front_rc_height_Raw(lca_len, uca_len, lca_inner_h, lca_outer_h, uca_inner_h, uca_outer_h, half_track) ==
    LET geo == _front_view_ic(lca_len, uca_len, lca_inner_h, lca_outer_h, uca_inner_h, uca_outer_h, half_track, Zero)
    IN  IF ~IsNone(geo.rc_y) THEN Val(geo.rc_y) ELSE None

_calc_front_rc_height(lca_len, uca_len, lca_inner_h, lca_outer_h, uca_inner_h, uca_outer_h, half_track) ==
    LET geo == _front_view_ic(lca_len, uca_len, lca_inner_h, lca_outer_h, uca_inner_h, uca_outer_h, half_track, Zero)
    IN  IF ~IsNone(geo.rc_y) THEN Val(geo.rc_y) ELSE Zero

----------------------------------------------------------------------------
(* REAR GEOMETRY  (upper-link projection)                                  *)

\* variant: the link line projected from the axle-side mount's offset
_calc_rear_rc_height_AxleSide(upper_frame_h, upper_axle_h, upper_frame_offset, upper_axle_offset) ==
    LET dx == RSub(upper_axle_offset, upper_frame_offset)
    IN  IF AbsLtPow(dx, 3)
        THEN Round(RDiv(RAdd(upper_frame_h, upper_axle_h), RInt(2)), 3)
        ELSE LET slope     == RDiv(RSub(upper_axle_h, upper_frame_h), dx)
                 rc_height == RSub(upper_frame_h, RMul(slope, upper_axle_offset))
             IN  Round(rc_height, 3)

\* variant: the slope taken as run over rise
_calc_rear_rc_height_InvSlope(upper_frame_h, upper_axle_h, upper_frame_offset, upper_axle_offset) ==
    LET dx == RSub(upper_axle_offset, upper_frame_offset)
        dy == RSub(upper_axle_h, upper_frame_h)
    IN  IF AbsLtPow(dx, 3)
        THEN Round(RDiv(RAdd(upper_frame_h, upper_axle_h), RInt(2)), 3)
        ELSE LET slope     == IF dy = Zero THEN Zero ELSE RDiv(dx, dy)
                 rc_height == RSub(upper_frame_h, RMul(slope, upper_frame_offset))
             IN  Round(rc_height, 3)

\* variant: the degenerate link answered with the frame-side height
_calc_rear_rc_height_NoMean(upper_frame_h, upper_axle_h, upper_frame_offset, upper_axle_offset) ==
    LET dx == RSub(upper_axle_offset, upper_frame_offset)
    IN  IF AbsLtPow(dx, 3)
        THEN Round(upper_frame_h, 3)
        ELSE LET slope     == RDiv(RSub(upper_axle_h, upper_frame_h), dx)
                 rc_height == RSub(upper_frame_h, RMul(slope, upper_frame_offset))
             IN  Round(rc_height, 3)

_calc_rear_rc_height(upper_frame_h, upper_axle_h, upper_frame_offset, upper_axle_offset) ==
    LET dx == RSub(upper_axle_offset, upper_frame_offset)
    IN  IF AbsLtPow(dx, 3)
        THEN Round(RDiv(RAdd(upper_frame_h, upper_axle_h), RInt(2)), 3)
        ELSE LET slope     == RDiv(RSub(upper_axle_h, upper_frame_h), dx)
                 rc_height == RSub(upper_frame_h, RMul(slope, upper_frame_offset))
             IN  Round(rc_height, 3)

----------------------------------------------------------------------------
(* SPRING RATE / WHEEL RATE / RIDE FREQUENCY                               *)

\* inches per second squared, times 10
GravityTenths == 3864

PiSq == BSq(PiFix)

\* variant: only the weight guarded, not the frequency
_calc_spring_rate_WeightOnly(weight_on_wheel, desired_freq, motion_ratio) ==
    IF weight_on_wheel[1] <= 0 THEN Zero
    ELSE
    LET w  == weight_on_wheel
        f  == desired_freq
        mn == IF motion_ratio[1] > 0 THEN motion_ratio[1] ELSE 1
        md == IF motion_ratio[1] > 0 THEN motion_ratio[2] ELSE 1
        n  == BMul(PiSq, BProd(<< 400, f[1], f[1], w[1], md, md >>))
        d  == BShl(BProd(<< f[2], f[2], w[2], GravityTenths, mn, mn >>), 2 * FixLimbs)
    IN  Rat(BRoundDiv(n, d), 10)

_calc_spring_rate(weight_on_wheel, desired_freq, motion_ratio) ==
    IF weight_on_wheel[1] <= 0 \/ desired_freq[1] <= 0 THEN Zero
    ELSE
    \* k_spring * 10 = 4 pi^2 f^2 (w / 386.4) / m^2 * 10, the division by
    \* m^2 only for m > 0
    LET w  == weight_on_wheel
        f  == desired_freq
        mn == IF motion_ratio[1] > 0 THEN motion_ratio[1] ELSE 1
        md == IF motion_ratio[1] > 0 THEN motion_ratio[2] ELSE 1
        n  == BMul(PiSq, BProd(<< 400, f[1], f[1], w[1], md, md >>))
        d  == BShl(BProd(<< f[2], f[2], w[2], GravityTenths, mn, mn >>), 2 * FixLimbs)
    IN  Rat(BRoundDiv(n, d), 10)

_calc_wheel_rate(spring_rate, motion_ratio) ==
    Round(RMul(spring_rate, RMul(motion_ratio, motion_ratio)), 1)

\* variant: the wheel rate taken as spring_rate * motion_ratio; a negative
\* one fails in math.sqrt and the handler returns 0.0
_calc_ride_frequency_Linear(spring_rate, weight_on_wheel, motion_ratio) ==
    IF weight_on_wheel[1] <= 0 \/ spring_rate[1] <= 0 \/ motion_ratio[1] <= 0 THEN Zero
    ELSE
    LET w == weight_on_wheel
        k == spring_rate
        m == motion_ratio
        n == BShl(BProd(<< 1000, k[1], m[1], GravityTenths, w[2] >>), 2 * FixLimbs)
        d == BMul(PiSq, BProd(<< 4, k[2], m[2], w[1] >>))
    IN  Rat(BRoundSqrt(n, d), 100)

_calc_ride_frequency(spring_rate, weight_on_wheel, motion_ratio) ==
    IF weight_on_wheel[1] <= 0 \/ spring_rate[1] <= 0 THEN Zero
    ELSE
    \* freq * 100 = sqrt(k_wheel / mass) / (2 pi) * 100 with
    \* k_wheel = spring_rate * m^2 and mass = w / 386.4
    LET w == weight_on_wheel
        k == spring_rate
        m == motion_ratio
        n == BShl(BProd(<< 1000, k[1], m[1], m[1], GravityTenths, w[2] >>), 2 * FixLimbs)
        d == BMul(PiSq, BProd(<< 4, k[2], m[2], m[2], w[1] >>))
    IN  Rat(BRoundSqrt(n, d), 100)

----------------------------------------------------------------------------
(* CAMBER GAIN TABLE AND TRAVEL SWEEP                                      *)

\* variant: a guard on the arm lengths, answering a non-positive one with
\* the result that carries no data
Solve_ArmGuard(g, bump_in) ==
    IF g.lca_len[1] <= 0 \/ g.uca_len[1] <= 0
    THEN ZeroSpanResult(RAdd(g.lca_outer_h, bump_in), RAdd(g.uca_outer_h, RMul(bump_in, UcaTravelShare)))
    ELSE _front_view_ic(g.lca_len, g.uca_len, g.lca_inner_h, g.lca_outer_h, g.uca_inner_h, g.uca_outer_h, g.half_track, bump_in)

Solve(g, bump_in) ==
    _front_view_ic(g.lca_len, g.uca_len, g.lca_inner_h, g.lca_outer_h, g.uca_inner_h, g.uca_outer_h, g.half_track, bump_in)

\* variant: the step taken as 2 * travel_range / steps
SampleTravel_PerStep(travel_range, steps, i) ==
    RAdd(RNeg(travel_range), RDiv(RMul(RMul(RInt(2), travel_range), RInt(i)), RInt(steps)))

\* -travel_range + (2 * travel_range * i / (steps - 1)), i counted from 0
SampleTravel(travel_range, steps, i) ==
    RAdd(RNeg(travel_range), RDiv(RMul(RMul(RInt(2), travel_range), RInt(i)), RInt(steps - 1)))

\* geo["camber"] or 0.0
CamberOrZero(geo) == IF geo.camber = Zero THEN Zero ELSE geo.camber

\* steps = 1 divides by zero in the first iteration; the function's own
\* handler then returns [(0, 0)]
_calc_camber_gain(g, travel_range, steps) ==
    IF steps = 1 THEN << << Zero, Zero >> >>
    ELSE
    LET base_camber == CamberOrZero(Solve(g, Zero))
    IN  [k \in 1..steps |->
            LET travel == SampleTravel(travel_range, steps, k - 1)
                new_camber == CamberOrZero(Solve(g, travel))
            IN  << Round(travel, 2), Round(RSub(new_camber, base_camber), 3) >>]

Raised(e) == [raised |-> e]

\* one solve per sample, in sample order
RECURSIVE SolveEach(_, _, _, _)
SolveEach(g, travel_range, steps, k) ==
    IF k > steps THEN <<>>
    ELSE << Solve(g, SampleTravel(travel_range, steps, k - 1)) >> \o SolveEach(g, travel_range, steps, k + 1)

\* variant: the solver's rc_y and fvsa appended as they are, None included
SweepSeries_KeepNone(base_camber, t, geo) ==
    [travels        |-> [k \in 1..Len(t) |-> Round(t[k], 3)],
     rc_heights     |-> [k \in 1..Len(t) |-> IF ~IsNone(geo[k].rc_y) THEN Val(geo[k].rc_y) ELSE None],
     fvsa_lengths   |-> [k \in 1..Len(t) |-> IF ~IsNone(geo[k].fvsa) THEN Val(geo[k].fvsa) ELSE None],
     camber_changes |-> [k \in 1..Len(t) |-> Round(RSub(CamberOrZero(geo[k]), base_camber), 3)]]

\* variant: the camber of each sample recorded as it is, not as its change
\* from the camber at zero travel
SweepSeries_NoBase(base_camber, t, geo) ==
    [travels        |-> [k \in 1..Len(t) |-> Round(t[k], 3)],
     rc_heights     |-> [k \in 1..Len(t) |-> IF ~IsNone(geo[k].rc_y) THEN Val(geo[k].rc_y) ELSE Zero],
     fvsa_lengths   |-> [k \in 1..Len(t) |-> IF ~IsNone(geo[k].fvsa) THEN Val(geo[k].fvsa) ELSE Zero],
     camber_changes |-> [k \in 1..Len(t) |-> Round(CamberOrZero(geo[k]), 3)]]

SweepSeries(base_camber, t, geo) ==
    [travels        |-> [k \in 1..Len(t) |-> Round(t[k], 3)],
     rc_heights     |-> [k \in 1..Len(t) |-> IF ~IsNone(geo[k].rc_y) THEN Val(geo[k].rc_y) ELSE Zero],
     fvsa_lengths   |-> [k \in 1..Len(t) |-> IF ~IsNone(geo[k].fvsa) THEN Val(geo[k].fvsa) ELSE Zero],
     camber_changes |-> [k \in 1..Len(t) |-> Round(RSub(CamberOrZero(geo[k]), base_camber), 3)]]

\* no handler here: steps = 1 propagates the division by zero
_calc_sweep_data(g, travel_range, steps) ==
    IF steps = 1 THEN Raised("ZeroDivisionError")
    ELSE SweepSeries(CamberOrZero(Solve(g, Zero)), [k \in 1..steps |-> SampleTravel(travel_range, steps, k - 1)], SolveEach(g, travel_range, steps, 1))

----------------------------------------------------------------------------
(* FRONT-VIEW DIAGRAM: the two sides under body roll                       *)

\* x - x^3/3! + x^5/5! - ... in fixed point; t is x^(2k+1) / (2k+1)!
RECURSIVE SinTerms(_, _, _, _, _)
SinTerms(t, x2, k, pos, neg) ==
    IF t = <<>> THEN << pos, neg >>
    ELSE SinTerms(BDivSmall(FixMul(t, x2), (2 * k + 2) * (2 * k + 3)), x2, k + 1,
                  IF k % 2 = 0 THEN BAdd(pos, t) ELSE pos,
                  IF k % 2 = 1 THEN BAdd(neg, t) ELSE neg)

\* math.sin(x) for a fixed-point x in 0..pi
SinFix(x) ==
    LET pn == SinTerms(x, FixMul(x, x), 0, <<>>, <<>>)
    IN  BSub(pn[1], pn[2])

\* math.radians(abs(roll_deg)) in fixed point
RadiansFix(roll_deg) == BDivSmall(BMulSmall(PiFix, Abs(roll_deg[1])), 180 * roll_deg[2])

\* half_track * math.sin(roll_rad), carried to a hundredth of an inch
RollShift(half_track, roll_deg) ==
    LET s == SinFix(RadiansFix(roll_deg))
        n == BMulSmall(s, 100 * half_track[1])
        d == BShl(BFromInt(half_track[2]), FixLimbs)
    IN  Rat(Sign(roll_deg[1]) * BRoundDiv(n, d), 100)

\* abs(roll_deg) > 0.01
Rolling(roll_deg) == RLt(Rat(1, 100), RAbs(roll_deg))

\* variant: the marker always drawn at the right side's roll centre
RcMarker_RightOnly(roll_deg, rc_y_r, rc_y_l) ==
    IF ~IsNone(rc_y_r) THEN Val(rc_y_r) ELSE Zero

\* "RC marker (use average of L/R if rolling)"; at ground when no side has one
RcMarker(roll_deg, rc_y_r, rc_y_l) ==
    IF Rolling(roll_deg) /\ ~IsNone(rc_y_r) /\ ~IsNone(rc_y_l)
    THEN RDiv(RAdd(Val(rc_y_r), Val(rc_y_l)), RInt(2))
    ELSE IF ~IsNone(rc_y_r) THEN Val(rc_y_r)
    ELSE Zero

\* the right and the left side solved, each at its own travel
SolveSides(g, bumps) == [i \in 1..2 |-> Solve(g, bumps[i])]

\* what the diagram draws for the two solved sides
DiagramOf(roll_deg, bumps, geo) ==
    [r_bump |-> bumps[1], l_bump |-> bumps[2], geo_r |-> geo[1], geo_l |-> geo[2],
     rc_marker |-> RcMarker(roll_deg, geo[1].rc_y, geo[2].rc_y)]

\* r_bump = bump_in + shift, l_bump = bump_in - shift
DiagramAt(g, roll_deg, bumps) == DiagramOf(roll_deg, bumps, SolveSides(g, bumps))

SideBumps(bump_in, shift) == << RAdd(bump_in, shift), RSub(bump_in, shift) >>

_draw_front_view_rc(g, bump_in, roll_deg) ==
    DiagramAt(g, roll_deg, SideBumps(bump_in, RollShift(g.half_track, roll_deg)))

\* sample counts the page passes to the table and to the sweep
CamberSteps == 13
SweepSteps == 25

\* Camber Gain tab: the table built from the geometry of the Calculate tab
RenderCamberTab(g, cg_range) ==
    [camber_data |-> _calc_camber_gain(g, cg_range, CamberSteps)]

\* Sweep tab: the series and the "Values at Static (0 travel)" metrics,
\* read at mid_idx = len(travels) // 2 (an index counted from 0)
StaticValues(sw) ==
    LET mid_idx == Len(sw.travels) \div 2
    IN  [sweep |-> sw,
         mid_idx |-> mid_idx,
         static_rc |-> sw.rc_heights[mid_idx + 1],
         static_fvsa |-> sw.fvsa_lengths[mid_idx + 1],
         static_camber |-> sw.camber_changes[mid_idx + 1]]

RenderSweepTab(g, sw_range) == StaticValues(_calc_sweep_data(g, sw_range, SweepSteps))

----------------------------------------------------------------------------
(* Inputs                                                                  *)

MaxTravel == 2
MaxOffset == 6
MaxFreqIdx == 3
MaxHalfRange == 4
MaxSteps == 5

D(n, d) == Rat(n, d)

LcaOuterSet == { D(11, 2), D(6, 1) }
UcaOuterSet == { D(13, 1), D(27, 2), D(11, 2), D(273, 20) }
HalfTrackSet == { D(30, 1), D(4, 1), D(2, 1) }

\* both outer pivots on the ground: the instant centre is the contact patch
ContactPatchGeoms ==
    { [lca_len |-> D(12, 1), uca_len |-> D(10, 1), lca_inner_h |-> D(6, 1), lca_outer_h |-> D(0, 1), uca_inner_h |-> D(14, 1), uca_outer_h |-> D(0, 1), half_track |-> D(12, 1)] }

\* arm lengths of zero (the least the length inputs accept) and below
ArmLengthPairs == { << D(0, 1), D(10, 1) >>, << D(12, 1), D(0, 1) >>, << D(-1, 1), D(-1, 1) >> }

ShortArmGeoms ==
    { [lca_len |-> p[1], uca_len |-> p[2], lca_inner_h |-> D(6, 1), lca_outer_h |-> D(11, 2), uca_inner_h |-> D(14, 1), uca_outer_h |-> u, half_track |-> D(30, 1)] :
        p \in ArmLengthPairs, u \in { D(13, 1), D(27, 2) } }

FrontGeoms ==
    [lca_len : { D(12, 1) }, uca_len : { D(10, 1) }, lca_inner_h : { D(6, 1) }, lca_outer_h : LcaOuterSet, uca_inner_h : { D(14, 1) }, uca_outer_h : UcaOuterSet, half_track : HalfTrackSet]
    \cup ContactPatchGeoms
    \cup ShortArmGeoms

Travels == { D(t, 1) : t \in -MaxTravel..MaxTravel }

\* slider values 1.0, 1.5, 2.0, ...
TravelRanges == { D(k, 2) : k \in 2..MaxHalfRange }

SweepGeoms == { g \in FrontGeoms : g.lca_outer_h = D(11, 2) }

\* sample counts for direct calls of the table and the sweep
StepCounts == 1..MaxSteps
SampledGeoms == { g \in SweepGeoms : g.uca_outer_h \in { D(13, 1), D(273, 20) } }
SampledArgs == [g : SampledGeoms, travel_range : { D(1, 1), D(3, 2) }, steps : StepCounts]

\* Body Roll Angle slider: -5.0 to 5.0 degrees in steps of 0.25
RollAngles == { D(-5, 1), D(-1, 4), D(0, 1), D(1, 4), D(5, 2), D(5, 1) }

DiagramGeoms ==
    { g \in FrontGeoms : /\ g.lca_len = D(12, 1)
                          /\ g.lca_outer_h = D(11, 2)
                          /\ g.uca_outer_h \in { D(13, 1), D(27, 2) }
                          /\ g.half_track \in { D(30, 1), D(4, 1) } }

DiagramArgs == [g : DiagramGeoms, bump_in : { D(0, 1), D(1, 1) }, roll_deg : RollAngles]

FrameHeights == { D(16, 1), D(18, 1), D(145, 8) }
AxleHeights == { D(16, 1), D(20, 1) }
Offsets == { D(k, 1) : k \in 0..MaxOffset } \cup { D(20005, 10000) }

RearArgs ==
    [upper_frame_h : FrameHeights, upper_axle_h : AxleHeights, upper_frame_offset : Offsets, upper_axle_offset : Offsets]

Weights == { D(-5, 1), D(0, 1), D(5, 1), D(100, 1), D(400, 1) }
Freqs == { D(-1, 1), D(0, 1) } \cup { D(5 + 2 * k, 5) : k \in 0..MaxFreqIdx }
MotionRatios == { D(-1, 1), D(0, 1), D(1, 2), D(1, 1), D(2, 1) }
SpringRates == { D(-100, 1), D(0, 1), D(1, 2), D(1324, 10), D(200, 1) }

SpringArgs == [weight_on_wheel : Weights, desired_freq : Freqs, motion_ratio : MotionRatios]
WheelArgs == [spring_rate : SpringRates, motion_ratio : MotionRatios]
FreqArgs == [spring_rate : SpringRates, weight_on_wheel : Weights, motion_ratio : MotionRatios]

----------------------------------------------------------------------------
(* Python values held in row dictionaries: a float or a str.  A dict is a   *)
(* sequence of <<key, value>> pairs in insertion order, keys distinct.      *)

PyFloat(r) == [py |-> "float", v |-> r]
PyText(s) == [py |-> "str", v |-> s]
PyInt(n) == [py |-> "int", v |-> n]

\* the decimal digits of rem / d after the point, for a terminating decimal
RECURSIVE FracStr(_, _)
FracStr(rem, d) ==
    IF rem = 0 THEN ""
    ELSE ToString((rem * 10) \div d) \o FracStr((rem * 10) % d, d)

\* str(x) of a float x: sign, integer part, point, at least one digit
FloatStr(r) ==
    LET a == Abs(r[1])
    IN  (IF r[1] < 0 THEN "-" ELSE "") \o ToString(a \div r[2]) \o "."
        \o (IF a % r[2] = 0 THEN "0" ELSE FracStr(a % r[2], r[2]))

\* str(v)
PyStr(o) == IF o.py = "str" THEN o.v ELSE IF o.py = "int" THEN ToString(o.v) ELSE FloatStr(o.v)

DictKeys(d) == [i \in 1..Len(d) |-> d[i][1]]

DictHas(d, k) == \E i \in 1..Len(d) : d[i][1] = k

\* d.get(k, default)
DictGet(d, k, default) ==
    IF DictHas(d, k) THEN d[CHOOSE i \in 1..Len(d) : d[i][1] = k][2] ELSE default

\* d[k] = v: an existing key keeps its place, a new one goes last
DictSet(d, k, v) ==
    IF DictHas(d, k)
    THEN [i \in 1..Len(d) |-> IF d[i][1] = k THEN << k, v >> ELSE d[i]]
    ELSE Append(d, << k, v >>)

\* d.update(e)
RECURSIVE DictUpdate(_, _)
DictUpdate(d, e) ==
    IF e = <<>> THEN d ELSE DictUpdate(DictSet(d, e[1][1], e[1][2]), Tail(e))

----------------------------------------------------------------------------
(* A worksheet: the grid of cell strings, row 1 first.  What gspread does   *)
(* on it: get_all_values, row_values, update, append_row, delete_rows.      *)

\* s.strip() on the strings that occur in cells here
Strip(s) ==
    IF s \in { " ", "  " } THEN ""
    ELSE IF s = "2025-06-01 " THEN "2025-06-01"
    ELSE s

\* s.lower() on the header spellings that occur here
Lower(s) == IF s = "Date" THEN "date" ELSE IF s = "Track" THEN "track" ELSE s

IsBlankRow(r) == \A i \in 1..Len(r) : r[i] = ""

\* the last index of s that satisfies Used, 0 when none does
LastWhere(s, Used(_)) ==
    IF \A i \in 1..Len(s) : ~Used(s[i]) THEN 0
    ELSE CHOOSE i \in 1..Len(s) : Used(s[i]) /\ \A j \in (i + 1)..Len(s) : ~Used(s[j])

DropTrailingBlankRows(g) == SubSeq(g, 1, LastWhere(g, LAMBDA r : ~IsBlankRow(r)))

DropTrailingBlankCells(r) == SubSeq(r, 1, LastWhere(r, LAMBDA c : c # ""))

MaxLen(g) ==
    IF g = <<>> THEN 0
    ELSE CHOOSE m \in { Len(g[i]) : i \in 1..Len(g) } : \A i \in 1..Len(g) : Len(g[i]) <= m

PadRow(r, w) == [i \in 1..w |-> IF i <= Len(r) THEN r[i] ELSE ""]

\* the used range, every row as wide as the widest used one
get_all_values(ws) ==
    LET used == DropTrailingBlankRows([i \in 1..Len(ws) |-> DropTrailingBlankCells(ws[i])])
        w    == MaxLen(used)
    IN  [i \in 1..Len(used) |-> PadRow(used[i], w)]

\* ws.row_values(i)
row_values(ws, i) == IF i <= Len(ws) THEN DropTrailingBlankCells(ws[i]) ELSE <<>>

\* ws.update("A<r>", [values]) and ws.update("A<r>:<col><r>", [values]):
\* the first Len(values) cells of row r are overwritten, the rest is kept
WsUpdate(ws, r, values) ==
    LET old  == IF r <= Len(ws) THEN ws[r] ELSE <<>>
        w    == IF Len(old) > Len(values) THEN Len(old) ELSE Len(values)
        new  == [i \in 1..w |-> IF i <= Len(values) THEN values[i] ELSE old[i]]
        rows == IF r <= Len(ws) THEN Len(ws) ELSE r
    IN  get_all_values([i \in 1..rows |-> IF i = r THEN new ELSE IF i <= Len(ws) THEN ws[i] ELSE <<>>])

\* variant: the new row written over the last used row
WsAppendRow_Overwrite(ws, values) ==
    LET used == get_all_values(ws)
    IN  IF Len(used) < 2 THEN get_all_values(Append(used, values))
        ELSE get_all_values([i \in 1..Len(used) |-> IF i = Len(used) THEN values ELSE used[i]])

\* ws.append_row(values): a new row below the used range
WsAppendRow(ws, values) == get_all_values(Append(get_all_values(ws), values))

\* ws.delete_rows(i): rows below move up by one
WsDeleteRows(ws, i) ==
    IF i > Len(ws) THEN ws
    ELSE get_all_values([k \in 1..(Len(ws) - 1) |-> IF k < i THEN ws[k] ELSE ws[k + 1]])


----------------------------------------------------------------------------
(* utils/gsheet_db.py on one worksheet                                     *)

\* the non-empty headers, in order
Trimmed(headers) == SelectSeq(headers, LAMBDA h : Strip(h) # "")

\* [str(row_data.get(h, "")) for h in trimmed]
RowValues(row_data, trimmed) ==
    [i \in 1..Len(trimmed) |-> PyStr(DictGet(row_data, trimmed[i], PyText("")))]

EmptyFrame == [columns |-> <<>>, rows |-> <<>>]

\* the index of the last non-empty header, 0 when there is none
LastNamed(headers) == LastWhere(headers, LAMBDA h : Strip(h) # "")

\* the table as read: the columns up to the last named header, the rows
\* that hold anything
_cached_read_sheet(ws) ==
    LET all_values == get_all_values(ws)
    IN  IF Len(all_values) < 2 THEN EmptyFrame
        ELSE LET num_cols == LastNamed(all_values[1])
                 cut      == [i \in 1..(Len(all_values) - 1) |-> SubSeq(all_values[i + 1], 1, num_cols)]
                 rows     == SelectSeq(cut, LAMBDA r : \E i \in 1..Len(r) : Strip(r[i]) # "")
             IN  IF num_cols = 0 \/ rows = <<>> THEN EmptyFrame
                 ELSE [columns |-> SubSeq(all_values[1], 1, num_cols), rows |-> rows]

read_sheet(ws) == _cached_read_sheet(ws)

append_row(ws, row_data) ==
    LET existing == get_all_values(ws)
    IN  IF existing = <<>> \/ IsBlankRow(existing[1])
        THEN WsUpdate(WsUpdate(ws, 1, DictKeys(row_data)), 2, [i \in 1..Len(row_data) |-> PyStr(row_data[i][2])])
        ELSE WsAppendRow(ws, RowValues(row_data, Trimmed(existing[1])))

update_row(ws, row_index, row_data) ==
    LET trimmed == Trimmed(row_values(ws, 1))
    IN  WsUpdate(ws, row_index, RowValues(row_data, trimmed))

delete_row(ws, row_index) == WsDeleteRows(ws, row_index)


----------------------------------------------------------------------------
(* views/roll_centres.py: the page's log                                   *)

ALL_HEADERS ==
    << "chassis", "date", "track", "notes",
       "f_lca_length", "f_uca_length",
       "f_lca_inner_height", "f_lca_outer_height",
       "f_uca_inner_height", "f_uca_outer_height",
       "f_spindle_height",
       "r_trailing_arm_length",
       "r_trailing_arm_frame_height",
       "r_trailing_arm_axle_height",
       "r_upper_link_length",
       "r_upper_link_frame_height",
       "r_upper_link_axle_height",
       "r_upper_link_frame_offset",
       "r_upper_link_axle_offset",
       "r_rear_track_half",
       "front_rc_height", "rear_rc_height",
       "rc_height_diff" >>

InSeq(x, s) == \E i \in 1..Len(s) : s[i] = x

\* the headers of ALL_HEADERS the sheet lacks are added after the named ones
_ensure_headers(ws) ==
    LET trimmed == Trimmed(row_values(ws, 1))
        missing == SelectSeq(ALL_HEADERS, LAMBDA h : ~InSeq(h, trimmed))
    IN  IF missing # <<>> THEN WsUpdate(ws, 1, trimmed \o missing) ELSE ws

\* the values of the Calculate tab, computed on every run of the page
front_rc_of(inp) ==
    _calc_front_rc_height(inp.f_lca_len, inp.f_uca_len, inp.f_lca_inner_h, inp.f_lca_outer_h, inp.f_uca_inner_h, inp.f_uca_outer_h, inp.f_spindle_h)

rear_rc_of(inp) ==
    _calc_rear_rc_height(inp.r_ul_frame_h, inp.r_ul_axle_h, inp.r_ul_frame_offset, inp.r_ul_axle_offset)

\* variant: the difference taken as front minus rear
rc_diff_of_FrontMinusRear(rear_rc, front_rc) == Round(RSub(front_rc, rear_rc), 3)

\* rc_diff = round(rear_rc - front_rc, 3)
rc_diff_of(rear_rc, front_rc) == Round(RSub(rear_rc, front_rc), 3)

\* the row dict of "Save to Log" for the heights computed on this run
RowWith(inp, front_rc, rear_rc) ==
    << << "chassis", PyText(inp.chassis) >>, << "date", PyText(inp.date_val) >>,
       << "track", PyText(inp.track) >>, << "notes", PyText(inp.notes) >>,
       << "f_lca_length", PyFloat(inp.f_lca_len) >>, << "f_uca_length", PyFloat(inp.f_uca_len) >>,
       << "f_lca_inner_height", PyFloat(inp.f_lca_inner_h) >>,
       << "f_lca_outer_height", PyFloat(inp.f_lca_outer_h) >>,
       << "f_uca_inner_height", PyFloat(inp.f_uca_inner_h) >>,
       << "f_uca_outer_height", PyFloat(inp.f_uca_outer_h) >>,
       << "f_spindle_height", PyFloat(inp.f_spindle_h) >>,
       << "r_trailing_arm_length", PyFloat(inp.r_ta_length) >>,
       << "r_trailing_arm_frame_height", PyFloat(inp.r_ta_frame_h) >>,
       << "r_trailing_arm_axle_height", PyFloat(inp.r_ta_axle_h) >>,
       << "r_upper_link_length", PyFloat(inp.r_ul_length) >>,
       << "r_upper_link_frame_height", PyFloat(inp.r_ul_frame_h) >>,
       << "r_upper_link_axle_height", PyFloat(inp.r_ul_axle_h) >>,
       << "r_upper_link_frame_offset", PyFloat(inp.r_ul_frame_offset) >>,
       << "r_upper_link_axle_offset", PyFloat(inp.r_ul_axle_offset) >>,
       << "r_rear_track_half", PyFloat(inp.r_track_half) >>,
       << "front_rc_height", PyFloat(front_rc) >>,
       << "rear_rc_height", PyFloat(rear_rc) >>,
       << "rc_height_diff", PyFloat(rc_diff_of(rear_rc, front_rc)) >> >>

SaveRow(inp) == RowWith(inp, front_rc_of(inp), rear_rc_of(inp))

\* row.get(key, "") on a row of a frame with these columns
RowGet(columns, row, key) ==
    IF InSeq(key, columns)
    THEN row[CHOOSE i \in 1..Len(columns) : columns[i] = key]
    ELSE ""

\* df[df["chassis"] == chassis_filter]
FilterChassis(df, chassis_filter) ==
    [columns |-> df.columns,
     rows |-> SelectSeq(df.rows, LAMBDA r : RowGet(df.columns, r, "chassis") = chassis_filter)]

compare_keys ==
    << << "front_rc_height", "Front RC Height (in)" >>,
       << "rear_rc_height", "Rear RC Height (in)" >>,
       << "rc_height_diff", "RC Diff (in)" >>,
       << "f_lca_length", "Front LCA Length" >>,
       << "f_uca_length", "Front UCA Length" >>,
       << "f_lca_inner_height", "Front LCA Inner H" >>,
       << "f_lca_outer_height", "Front LCA Outer H" >>,
       << "f_uca_inner_height", "Front UCA Inner H" >>,
       << "f_uca_outer_height", "Front UCA Outer H" >>,
       << "f_spindle_height", "Front Track Half" >>,
       << "r_trailing_arm_length", "Rear Trailing Arm Len" >>,
       << "r_trailing_arm_frame_height", "Rear TA Frame H" >>,
       << "r_trailing_arm_axle_height", "Rear TA Axle H" >>,
       << "r_upper_link_length", "Rear Upper Link Len" >>,
       << "r_upper_link_frame_height", "Rear UL Frame H" >>,
       << "r_upper_link_axle_height", "Rear UL Axle H" >>,
       << "r_upper_link_frame_offset", "Rear UL Frame Offset" >>,
       << "r_upper_link_axle_offset", "Rear UL Axle Offset" >>,
       << "r_rear_track_half", "Rear Track Half" >> >>

\* float(s): the numerals that occur in cells here, each with its value;
\* any other text raises ValueError (None)
ParseFloat(s, numerals) ==
    IF \E p \in numerals : p[1] = s
    THEN Some((CHOOSE p \in numerals : p[1] = s)[2])
    ELSE None

Pad3(n) ==
    IF n < 10 THEN "00" \o ToString(n)
    ELSE IF n < 100 THEN "0" \o ToString(n)
    ELSE ToString(n)

\* f"{x:+.3f}" for x a multiple of 0.001
SignedFixed3(x) ==
    LET n == (Abs(x[1]) * 1000) \div x[2]
    IN  (IF x[1] < 0 THEN "-" ELSE "+") \o ToString(n \div 1000) \o "." \o Pad3(n % 1000)

\* variant: the difference taken as A minus B
CompareDelta_AMinusB(va, vb) == Round(RSub(va, vb), 3)

\* diff = round(vb - va, 3)
CompareDelta(va, vb) == Round(RSub(vb, va), 3)

\* one line of the comparison table
CompareLine(columns, row_a, row_b, key, label, numerals) ==
    LET val_a == RowGet(columns, row_a, key)
        val_b == RowGet(columns, row_b, key)
        pa    == ParseFloat(val_a, numerals)
        pb    == ParseFloat(val_b, numerals)
    IN  IF ~IsNone(pa) /\ ~IsNone(pb)
        THEN LET diff == CompareDelta(Val(pa), Val(pb))
             IN  [Parameter |-> label, SetupA |-> PyFloat(Val(pa)), SetupB |-> PyFloat(Val(pb)),
                  Difference |-> IF diff # Zero THEN SignedFixed3(diff) ELSE "--"]
        ELSE [Parameter |-> label, SetupA |-> PyText(val_a), SetupB |-> PyText(val_b), Difference |-> ""]

\* cmp_rows for the entries sel_a and sel_b (counted from 1) of the frame
CompareTable(df_all, sel_a, sel_b, numerals) ==
    [k \in 1..Len(compare_keys) |->
        CompareLine(df_all.columns, df_all.rows[sel_a], df_all.rows[sel_b], compare_keys[k][1], compare_keys[k][2], numerals)]

----------------------------------------------------------------------------
(* The Roll Centres page on its log sheet: the page is opened (one run of  *)
(* render), then each step is one user action and the run it triggers.     *)
(* fn is the last action, args what the user chose, ret what the run       *)
(* built or displayed.                                                     *)

MaxLogRows == 3

ChassisList == << "Car A", "Car B" >>

\* the widgets' values at "Save to Log": the defaults, with the chassis
\* and the LCA outer height chosen
PageInputs(chassis, lca_outer_h) ==
    [chassis |-> chassis, date_val |-> "2025-06-01", track |-> "Speedway", notes |-> "",
     f_lca_len |-> D(12, 1), f_uca_len |-> D(10, 1),
     f_lca_inner_h |-> D(6, 1), f_lca_outer_h |-> lca_outer_h,
     f_uca_inner_h |-> D(14, 1), f_uca_outer_h |-> D(13, 1),
     f_spindle_h |-> D(30, 1),
     r_ta_length |-> D(28, 1), r_ta_frame_h |-> D(8, 1), r_ta_axle_h |-> D(8, 1),
     r_ul_length |-> D(12, 1), r_ul_frame_h |-> D(18, 1), r_ul_axle_h |-> D(16, 1),
     r_ul_frame_offset |-> D(2, 1), r_ul_axle_offset |-> D(6, 1),
     r_track_half |-> D(30, 1)]

SaveInputs == { PageInputs(ChassisList[1], D(11, 2)), PageInputs(ChassisList[2], D(23, 4)) }

\* the row dict of each input, computed once
SavedRows == { << inp, SaveRow(inp) >> : inp \in SaveInputs }

RowOf(inp) == (CHOOSE p \in SavedRows : p[1] = inp)[2]

\* the cells of each saved row under the full header row
CellsOf == [inp \in SaveInputs |-> RowValues(RowOf(inp), ALL_HEADERS)]

SetCell(row, header, s) ==
    [i \in 1..Len(row) |-> IF ALL_HEADERS[i] = header THEN s ELSE row[i]]

BlankCells == [i \in 1..Len(ALL_HEADERS) |-> ""]

\* numerals typed into the sheet by hand
HandNumerals == { << "12", D(12, 1) >>, << "5.5004", D(55004, 10000) >> }

\* every numeral a cell of the log can hold here, with its value
LogNumerals ==
    LET saved == UNION { { RowOf(inp)[i][2] : i \in 5..Len(ALL_HEADERS) } : inp \in SaveInputs }
    IN  HandNumerals \cup { << PyStr(v), v.v >> : v \in saved }

\* the sheet as found when the page is opened: new, headed, with a blank
\* row between two records, with cells edited by hand, with the headers
\* of an older version
LogsWith(a, b, c) ==
    { <<>>,
      << ALL_HEADERS >>,
      << ALL_HEADERS, a, BlankCells, b >>,
      << ALL_HEADERS, a, SetCell(SetCell(SetCell(c, "f_lca_outer_height", "5.5004"), "f_lca_length", "12"), "f_uca_length", "n/a") >>,
      << SubSeq(ALL_HEADERS, 1, 20), SubSeq(a, 1, 20) >> }

StoredLogs ==
    UNION { LogsWith(a, b, b) : a \in { CellsOf[PageInputs("Car A", D(11, 2))] },
                                b \in { CellsOf[PageInputs("Car B", D(23, 4))] } }

NoSheets == [roll_centres |-> <<>>, race_day |-> <<>>]

NoRetry == [attempt |-> 0, log |-> <<>>]

\* st.session_state and the st.cache_data store of a fresh process: empty
NoSession == <<>>
NoCache == <<>>

----------------------------------------------------------------------------
(* One evaluation of a function of the engine: fn is the function, args    *)
(* its arguments, ret its result once pc = "return".                       *)

VARIABLES fn, args, pc, ret, sheets, retry, session, cache

vars == << fn, args, pc, ret, sheets, retry, session, cache >>

Calls ==
    ({ "_front_view_ic" } \X [g : FrontGeoms, bump_in : Travels])
    \cup ({ "_calc_front_rc_height" } \X [g : FrontGeoms])
    \cup ({ "_calc_rear_rc_height" } \X RearArgs)
    \cup ({ "_calc_spring_rate" } \X SpringArgs)
    \cup ({ "_calc_wheel_rate" } \X WheelArgs)
    \cup ({ "_calc_ride_frequency" } \X FreqArgs)
    \cup ({ "_calc_camber_gain" } \X SampledArgs)
    \cup ({ "_calc_sweep_data" } \X SampledArgs)
    \cup ({ "tab_camber" } \X [g : SweepGeoms, cg_range : TravelRanges])
    \cup ({ "tab_sweep" } \X [g : SweepGeoms, sw_range : TravelRanges])
    \cup ({ "_draw_front_view_rc" } \X DiagramArgs)

Init ==
    /\ \E c \in Calls : fn = c[1] /\ args = c[2]
    /\ pc = "call"
    /\ ret = None
    /\ sheets = NoSheets
    /\ retry = NoRetry
    /\ session = NoSession
    /\ cache = NoCache

Return(f, v) ==
    /\ pc = "call"
    /\ fn = f
    /\ ret' = v
    /\ pc' = "return"
    /\ UNCHANGED << fn, args, sheets, retry, session, cache >>

FrontViewIc == Return("_front_view_ic", Solve(args.g, args.bump_in))

CalcFrontRcHeight ==
    Return("_calc_front_rc_height", _calc_front_rc_height(args.g.lca_len, args.g.uca_len, args.g.lca_inner_h, args.g.lca_outer_h, args.g.uca_inner_h, args.g.uca_outer_h, args.g.half_track))

CalcRearRcHeight ==
    Return("_calc_rear_rc_height", _calc_rear_rc_height(args.upper_frame_h, args.upper_axle_h, args.upper_frame_offset, args.upper_axle_offset))

CalcSpringRate ==
    Return("_calc_spring_rate", _calc_spring_rate(args.weight_on_wheel, args.desired_freq, args.motion_ratio))

CalcWheelRate ==
    Return("_calc_wheel_rate", _calc_wheel_rate(args.spring_rate, args.motion_ratio))

CalcRideFrequency ==
    Return("_calc_ride_frequency", _calc_ride_frequency(args.spring_rate, args.weight_on_wheel, args.motion_ratio))

CalcCamberGain ==
    Return("_calc_camber_gain", _calc_camber_gain(args.g, args.travel_range, args.steps))

CalcSweepData ==
    Return("_calc_sweep_data", _calc_sweep_data(args.g, args.travel_range, args.steps))

CamberTab == Return("tab_camber", RenderCamberTab(args.g, args.cg_range))

SweepTab == Return("tab_sweep", RenderSweepTab(args.g, args.sw_range))

DrawFrontViewRc ==
    Return("_draw_front_view_rc", _draw_front_view_rc(args.g, args.bump_in, args.roll_deg))

Next ==
    \/ FrontViewIc
    \/ CalcFrontRcHeight
    \/ CalcRearRcHeight
    \/ CalcSpringRate
    \/ CalcWheelRate
    \/ CalcRideFrequency
    \/ CalcCamberGain
    \/ CalcSweepData
    \/ CamberTab
    \/ SweepTab
    \/ DrawFrontViewRc

Spec == Init /\ [][Next]_vars

----------------------------------------------------------------------------
(* The Roll Centres page and its log                                       *)

InitLog ==
    /\ fn = "closed"
    /\ args = None
    /\ pc = "closed"
    /\ ret = None
    /\ \E ws \in StoredLogs : sheets = [NoSheets EXCEPT !.roll_centres = ws]
    /\ retry = NoRetry
    /\ session = NoSession
    /\ cache = NoCache

\* the first run of render: the header row is completed
OpenPage ==
    /\ pc = "closed"
    /\ pc' = "open"
    /\ fn' = "render"
    /\ sheets' = [sheets EXCEPT !.roll_centres = _ensure_headers(@)]
    /\ UNCHANGED << args, ret, retry, session, cache >>

\* "Save to Log" pressed with the inputs inp
SaveToLog ==
    /\ pc = "open"
    /\ \E inp \in SaveInputs, ws \in { _ensure_headers(sheets.roll_centres) } :
        /\ Len(ws) <= MaxLogRows
        /\ \E row \in { RowOf(inp) } :
            /\ sheets' = [sheets EXCEPT !.roll_centres = append_row(ws, row)]
            /\ ret' = row
        /\ fn' = "save_to_log"
        /\ args' = inp
    /\ UNCHANGED << pc, retry, session, cache >>

\* "Delete Selected Entry" pressed under a chassis filter, with the entry
\* del_row of the displayed frame selected; with nothing displayed the
\* selection is None and del_row + 1 raises
DeleteEntry ==
    /\ pc = "open"
    /\ \E ws \in { _ensure_headers(sheets.roll_centres) } :
       \E all \in { read_sheet(ws) } :
       \E chassis_filter \in { "All" } \cup { ChassisList[c] : c \in 1..Len(ChassisList) } :
       \E df \in { IF chassis_filter # "All" THEN FilterChassis(all, chassis_filter) ELSE all } :
        /\ all # EmptyFrame
        /\ fn' = "delete_entry"
        /\ \/ \E del_row \in 1..Len(df.rows) :
                /\ args' = [chassis_filter |-> chassis_filter, del_row |-> Some(del_row)]
                /\ ret' = [shown |-> df.rows[del_row], row_index |-> del_row + 1]
                /\ sheets' = [sheets EXCEPT !.roll_centres = delete_row(ws, del_row + 1)]
           \/ /\ df.rows = <<>>
              /\ args' = [chassis_filter |-> chassis_filter, del_row |-> None]
              /\ ret' = [raised |-> "TypeError"]
              /\ sheets' = [sheets EXCEPT !.roll_centres = ws]
    /\ UNCHANGED << pc, retry, session, cache >>

\* two entries chosen in the Compare tab
CompareSetups ==
    /\ pc = "open"
    /\ \E ws \in { _ensure_headers(sheets.roll_centres) } :
       \E df_all \in { read_sheet(ws) } :
        /\ df_all # EmptyFrame
        /\ \E sel_a, sel_b \in 1..Len(df_all.rows) :
            /\ args' = [sel_a |-> sel_a, sel_b |-> sel_b]
            /\ ret' = CompareTable(df_all, sel_a, sel_b, LogNumerals)
        /\ fn' = "compare_setups"
        /\ sheets' = [sheets EXCEPT !.roll_centres = ws]
    /\ UNCHANGED << pc, retry, session, cache >>

NextLog ==
    \/ OpenPage
    \/ SaveToLog
    \/ DeleteEntry
    \/ CompareSetups

SpecLog == InitLog /\ [][NextLog]_vars

----------------------------------------------------------------------------
(* utils/gsheet_db.py: the retry loops of _api_retry and get_spreadsheet.  *)
(* fn is the loop, args the outcome of each attempt of the wrapped call,   *)
(* retry.attempt the loop variable and retry.log what has happened.        *)

max_retries == 3

RetryLoops == { "_api_retry", "get_spreadsheet" }

\* the wrapped call returns, raises gspread's APIError, or raises something else
Outcomes == { "ok", "api", "other" }

Scripts == [1..max_retries -> Outcomes]

RECURSIVE Pow2(_)
Pow2(k) == IF k = 0 THEN 1 ELSE 2 * Pow2(k - 1)

\* variant: the wait doubled
BackoffWait_Doubled(attempt) == Pow2(attempt + 1)

\* 2 ** attempt
BackoffWait(attempt) == Pow2(attempt)

\* attempt < max_retries - 1, attempt < 2
MayRetry(f, attempt) == IF f = "_api_retry" THEN attempt < max_retries - 1 ELSE attempt < 2

InitRetry ==
    /\ fn \in RetryLoops
    /\ args \in Scripts
    /\ pc = "try"
    /\ ret = None
    /\ sheets = NoSheets
    /\ retry = NoRetry
    /\ session = NoSession
    /\ cache = NoCache

\* the wrapped call is made and its outcome is known
Called == [retry EXCEPT !.log = Append(@, << "call", retry.attempt >>)]

\* the attempt returns: its result is returned
AttemptReturns ==
    /\ pc = "try"
    /\ args[retry.attempt + 1] = "ok"
    /\ retry' = Called
    /\ ret' = [returned |-> << "result", retry.attempt >>]
    /\ pc' = "done"
    /\ UNCHANGED << fn, args, sheets, session, cache >>

\* the attempt raises APIError and is not the last: the loop backs off
AttemptFailsRetry ==
    /\ pc = "try"
    /\ args[retry.attempt + 1] = "api"
    /\ MayRetry(fn, retry.attempt)
    /\ retry' = Called
    /\ pc' = "except"
    /\ UNCHANGED << fn, args, ret, sheets, session, cache >>

\* the attempt raises APIError and is the last: the error is raised
AttemptFailsLast ==
    /\ pc = "try"
    /\ args[retry.attempt + 1] = "api"
    /\ ~MayRetry(fn, retry.attempt)
    /\ retry' = Called
    /\ ret' = [raised |-> << "APIError", retry.attempt >>]
    /\ pc' = "done"
    /\ UNCHANGED << fn, args, sheets, session, cache >>

\* the attempt raises something else: no handler, it propagates
AttemptRaisesOther ==
    /\ pc = "try"
    /\ args[retry.attempt + 1] = "other"
    /\ retry' = Called
    /\ ret' = [raised |-> << "Exception", retry.attempt >>]
    /\ pc' = "done"
    /\ UNCHANGED << fn, args, sheets, session, cache >>

\* time.sleep(2 ** attempt), _get_spreadsheet.clear(), the next attempt
Backoff ==
    /\ pc = "except"
    /\ retry' = [retry EXCEPT !.attempt = @ + 1,
                              !.log = @ \o << << "sleep", BackoffWait(retry.attempt) >>, << "clear", retry.attempt >> >>]
    /\ pc' = "try"
    /\ UNCHANGED << fn, args, ret, sheets, session, cache >>

NextRetry ==
    \/ AttemptReturns
    \/ AttemptFailsRetry
    \/ AttemptFailsLast
    \/ AttemptRaisesOther
    \/ Backoff

SpecRetry == InitRetry /\ [][NextRetry]_vars

----------------------------------------------------------------------------
(* utils/gsheet_db.py: the race_day sheet, one row per race day            *)

\* views/race_day_log.py ALL_HEADERS: the key columns and the columns the
\* forms used here write
RACE_DAY_HEADERS == << "date", "track", "chassis", "weather", "qualifying", "created" >>

ensure_race_day_headers(ws, all_headers) ==
    LET trimmed == Trimmed(row_values(ws, 1))
        missing == SelectSeq(all_headers, LAMBDA h : ~InSeq(h, trimmed))
    IN  IF missing # <<>> THEN WsUpdate(ws, 1, trimmed \o missing) ELSE ws

\* the last column whose header reads name, 0 when there is none
HeaderCol(headers, name) ==
    LET hits == { i \in 1..Len(headers) : Lower(Strip(headers[i])) = name }
    IN  IF hits = {} THEN 0 ELSE CHOOSE i \in hits : \A j \in hits : j <= i

\* row_dict over the first n columns
RECURSIVE RowDict(_, _, _)
RowDict(headers, row, n) ==
    IF n = 0 THEN <<>>
    ELSE LET d == RowDict(headers, row, n - 1)
         IN  IF Strip(headers[n]) # "" /\ n <= Len(row)
             THEN DictSet(d, Strip(headers[n]), PyText(row[n]))
             ELSE d

NotFound == [row_index |-> None, row_dict |-> None]

find_race_day(ws, date_str, track) ==
    LET all_values == get_all_values(ws)
    IN  IF Len(all_values) < 2 THEN NotFound
        ELSE LET headers   == all_values[1]
                 date_col  == HeaderCol(headers, "date")
                 track_col == HeaderCol(headers, "track")
                 hits      == { r \in 2..Len(all_values) :
                                  /\ Len(all_values[r]) >= date_col
                                  /\ Len(all_values[r]) >= track_col
                                  /\ Strip(all_values[r][date_col]) = date_str
                                  /\ Strip(all_values[r][track_col]) = track }
             IN  IF date_col = 0 \/ track_col = 0 \/ hits = {} THEN NotFound
                 ELSE LET row_num == CHOOSE r \in hits : \A q \in hits : r <= q
                      IN  [row_index |-> Some(row_num), row_dict |-> Some(RowDict(headers, all_values[row_num], Len(headers)))]

\* data with the key written into it
Keyed(data, date_str, track) == DictSet(DictSet(data, "date", PyText(date_str)), "track", PyText(track))

\* variant: the stored row not merged in
Merged_DataOnly(existing, data, date_str, track) == Keyed(data, date_str, track)

\* merged: the stored row, then the supplied fields, then the key
Merged(existing, data, date_str, track) == Keyed(DictUpdate(existing, data), date_str, track)

\* the sheet after the call, and the row index returned
upsert_race_day(ws, date_str, track, data) ==
    LET found == find_race_day(ws, date_str, track)
    IN  IF ~IsNone(found.row_index)
        THEN [ws |-> update_row(ws, Val(found.row_index), Merged(Val(found.row_dict), data, date_str, track)),
              ret |-> found.row_index]
        ELSE LET new == append_row(ws, Keyed(data, date_str, track))
             IN  [ws |-> new, ret |-> find_race_day(new, date_str, track).row_index]

MaxRaceDays == 2

Dates == { "2025-06-01", "2025-06-08" }

Tracks == { "Sauble Speedway", "Other" }

\* "Save Race Day Info" and "Save Qualifying"
InfoData(weather) ==
    << << "chassis", PyText("Car A") >>, << "weather", PyText(weather) >>, << "created", PyText("2025-06-01 17:00") >> >>

QualData == << << "qualifying", PyText("P3") >>, << "created", PyText("2025-06-01 19:00") >> >>

Datas == { InfoData("Sunny"), InfoData("Rain"), QualData }

\* the sheet as found: new, headed, with one race day, with a date cell
\* typed with a trailing blank, with the columns of an older version, with
\* two race days
StoredRaceDays ==
    LET a == << "2025-06-01", "Sauble Speedway", "Car A", "Sunny", "", "2025-06-01 16:00" >>
        b == << "2025-06-01", "Other", "Car A", "", "P5", "2025-06-01 16:30" >>
    IN  { <<>>,
          << RACE_DAY_HEADERS >>,
          << RACE_DAY_HEADERS, a >>,
          << RACE_DAY_HEADERS, [a EXCEPT ![1] = "2025-06-01 "] >>,
          << SubSeq(RACE_DAY_HEADERS, 1, 3), SubSeq(a, 1, 3) >>,
          << RACE_DAY_HEADERS, b, a >> }

InitRaceDay ==
    /\ fn = "closed"
    /\ args = None
    /\ pc = "closed"
    /\ ret = None
    /\ \E ws \in StoredRaceDays : sheets = [NoSheets EXCEPT !.race_day = ws]
    /\ retry = NoRetry
    /\ session = NoSession
    /\ cache = NoCache

\* the first run of the Race Day Log page: the header row is completed
OpenRaceDayLog ==
    /\ pc = "closed"
    /\ pc' = "open"
    /\ fn' = "render"
    /\ sheets' = [sheets EXCEPT !.race_day = ensure_race_day_headers(@, RACE_DAY_HEADERS)]
    /\ UNCHANGED << args, ret, retry, session, cache >>

\* a form of the page saved for the race day chosen
UpsertRaceDay ==
    /\ pc = "open"
    /\ \E date_str \in Dates, track \in Tracks, data \in Datas :
       \E ws \in { ensure_race_day_headers(sheets.race_day, RACE_DAY_HEADERS) } :
       \E out \in { upsert_race_day(ws, date_str, track, data) } :
        /\ Len(out.ws) <= MaxRaceDays + 1
        /\ sheets' = [sheets EXCEPT !.race_day = out.ws]
        /\ fn' = "upsert_race_day"
        /\ args' = [date_str |-> date_str, track |-> track, data |-> data]
        /\ ret' = out.ret
    /\ UNCHANGED << pc, retry, session, cache >>

NextRaceDay ==
    \/ OpenRaceDayLog
    \/ UpsertRaceDay

SpecRaceDay == InitRaceDay /\ [][NextRaceDay]_vars

----------------------------------------------------------------------------
(* app.py: the login form, the sidebar and the page router.  One action is  *)
(* one run of the script, started by a widget event; st.rerun() leaves a    *)
(* run pending.  session is st.session_state.                               *)

SessionSet(s, k, v) == [x \in DOMAIN s \cup { k } |-> IF x = k THEN v ELSE s[x]]

SessionPop(s, k) == [x \in DOMAIN s \ { k } |-> s[x]]

\* st.session_state.get(k): the value when it is there and truthy
SessionTrue(s, k) == k \in DOMAIN s /\ s[k]

\* the fallback table of check_password, and a table read from st.secrets
FallbackUsers == { << "admin", "speedlab2026" >> }
SecretUsers == { << "admin", "pit-lane" >>, << "crew1", "wrench" >> }
UserTables == { FallbackUsers, SecretUsers }

Usernames == { "admin", "crew1", "guest", "" }
Passwords == { "speedlab2026", "pit-lane", "wrench", "" }

\* the pages of the radio (labels without their icons), the first one the
\* default
Pages ==
    { "Dashboard", "Chassis Profiles", "Setup Book", "Race Day Log",
      "Tire Inventory", "Parts Inventory", "Maintenance", "Trackside Tuning" }
DefaultPage == "Dashboard"

\* variant: the username alone decides
CredentialsOk_UserOnly(valid_users, username, password) ==
    \E p \in valid_users : p[1] = username

\* username in valid_users and valid_users[username] == password
CredentialsOk(valid_users, username, password) ==
    \E p \in valid_users : p[1] = username /\ p[2] = password

\* check_password: the session state it leaves, what it returns, whether it
\* ended the run by st.rerun(), whether it showed the error
check_password(s0, ev) ==
    LET s == IF "authenticated" \in DOMAIN s0 THEN s0 ELSE SessionSet(s0, "authenticated", FALSE)
    IN  IF s["authenticated"]
        THEN [session |-> s, returns |-> TRUE, form |-> FALSE, rerun |-> FALSE, error |-> FALSE]
        ELSE IF ev.click = "Login" /\ CredentialsOk(ev.valid_users, ev.login_user, ev.login_pass)
        THEN [session |-> SessionSet(SessionSet(s, "authenticated", TRUE), "current_user", ev.login_user),
              returns |-> FALSE, form |-> TRUE, rerun |-> TRUE, error |-> FALSE]
        ELSE [session |-> s, returns |-> FALSE, form |-> TRUE, rerun |-> FALSE, error |-> ev.click = "Login"]

\* what one run of app.py showed
Shown(form, sidebar, routed, error) ==
    [login_form |-> form, sidebar |-> sidebar, routed |-> routed, error |-> error]

\* one run of app.py on the event ev
RunApp(ev) ==
    /\ fn' = "app"
    /\ args' = ev
    /\ \E out \in { check_password(session, ev) } :
        IF ~out.returns
        THEN /\ session' = out.session
             /\ ret' = Shown(out.form, FALSE, "", out.error)
             /\ pc' = IF out.rerun THEN "rerun" ELSE "login"
        ELSE IF ev.click = "Logout"
        THEN /\ session' = SessionSet(SessionSet(out.session, "authenticated", FALSE), "current_user", "")
             /\ ret' = Shown(FALSE, TRUE, "", FALSE)
             /\ pc' = "rerun"
        ELSE /\ session' = out.session
             /\ ret' = Shown(FALSE, TRUE, ev.page, FALSE)
             /\ pc' = "app"
    /\ UNCHANGED << sheets, retry, cache >>

Event(click, login_user, login_pass, page) ==
    [valid_users |-> args.valid_users, click |-> click, login_user |-> login_user, login_pass |-> login_pass, page |-> page]

InitApp ==
    /\ fn = "closed"
    /\ \E t \in UserTables :
        args = [valid_users |-> t, click |-> "", login_user |-> "", login_pass |-> "", page |-> DefaultPage]
    /\ pc = "start"
    /\ ret = None
    /\ sheets = NoSheets
    /\ retry = NoRetry
    /\ session = NoSession
    /\ cache = NoCache

\* the browser opens the app
FirstLoad ==
    /\ pc = "start"
    /\ RunApp(Event("", "", "", DefaultPage))

\* the Login button of the form, with what was typed into the two inputs
Login ==
    /\ pc = "login"
    /\ \E u \in Usernames, p \in Passwords : RunApp(Event("Login", u, p, DefaultPage))

\* another page chosen in the sidebar
Navigate ==
    /\ pc = "app"
    /\ \E page \in Pages : RunApp(Event("", args.login_user, args.login_pass, page))

\* the Logout button of the sidebar
Logout ==
    /\ pc = "app"
    /\ RunApp(Event("Logout", args.login_user, args.login_pass, args.page))

\* the run that st.rerun() asked for; the radio is new after a login
Rerun ==
    /\ pc = "rerun"
    /\ RunApp(Event("", args.login_user, args.login_pass, DefaultPage))

NextApp ==
    \/ FirstLoad
    \/ Login
    \/ Navigate
    \/ Logout
    \/ Rerun

SpecApp == InitApp /\ [][NextApp]_vars

----------------------------------------------------------------------------
(* utils/gsheet_db.py: the read cache.  cache is the store of               *)
(* st.cache_data for _cached_read_sheet: per sheet key the frame read and   *)
(* its age in seconds.  sheets maps a sheet key to its worksheet.           *)

\* @st.cache_data(ttl=60)
ttl == 60

\* the time that passes in one step of the clock: half the ttl
TickSeconds == ttl \div 2

\* the rows the race_day worksheet may grow to, header row not counted
MaxCachedRows == 1

\* ws.update_cell(r, c, value)
WsUpdateCell(ws, r, c, value) ==
    LET old  == IF r <= Len(ws) THEN ws[r] ELSE <<>>
        w    == IF Len(old) > c THEN Len(old) ELSE c
        new  == [i \in 1..w |-> IF i = c THEN value ELSE IF i <= Len(old) THEN old[i] ELSE ""]
        rows == IF r <= Len(ws) THEN Len(ws) ELSE r
    IN  get_all_values([i \in 1..rows |-> IF i = r THEN new ELSE IF i <= Len(ws) THEN ws[i] ELSE <<>>])

\* trimmed.index(key) + 1
IndexOf(s, x) == CHOOSE i \in 1..Len(s) : s[i] = x /\ \A j \in 1..(i - 1) : s[j] # x

\* one cell written for every key of row_data that is a header
RECURSIVE UpdateCells(_, _, _, _)
UpdateCells(ws, trimmed, row_index, row_data) ==
    IF row_data = <<>> THEN ws
    ELSE LET key   == row_data[1][1]
             value == row_data[1][2]
             next  == IF InSeq(key, trimmed) THEN WsUpdateCell(ws, row_index, IndexOf(trimmed, key), PyStr(value)) ELSE ws
         IN  UpdateCells(next, trimmed, row_index, Tail(row_data))

update_row_partial(ws, row_index, row_data) ==
    UpdateCells(ws, Trimmed(row_values(ws, 1)), row_index, row_data)

\* variant: only the entry of the sheet written is dropped
_invalidate_read_cache_KeyOnly(c, sheet_key) == [k \in DOMAIN c \ { sheet_key } |-> c[k]]

\* _cached_read_sheet.clear(): every entry is dropped
_invalidate_read_cache(c, sheet_key) == NoCache

\* the entry of sheet_key can still be served
Cached(c, sheet_key) == sheet_key \in DOMAIN c /\ c[sheet_key].age < ttl

CachePut(c, sheet_key, frame) ==
    [k \in DOMAIN c \cup { sheet_key } |-> IF k = sheet_key THEN [frame |-> frame, age |-> 0] ELSE c[k]]

\* every entry older by dt; an entry that reaches the ttl is gone
Aged(c, dt) ==
    [k \in { x \in DOMAIN c : c[x].age + dt < ttl } |-> [c[k] EXCEPT !.age = @ + dt]]

TIRE_REG_HEADERS ==
    << "tire_number", "category", "track_or_series", "mould_mark", "finish_size", "notes", "registered_date" >>

\* a registration as "Register for <category>" writes it
Registration(tire_number, category) ==
    << tire_number, category, "Delaware Speedway", "", "", "", "2025-06-01 10:00" >>

SheetKeys == { "race_day", "tire_reg" }

CachedSheets ==
    LET a == << "2025-06-01", "Sauble Speedway", "Car A", "Sunny", "", "2025-06-01 16:00" >>
    IN  { [race_day |-> rd, tire_reg |-> << TIRE_REG_HEADERS, Registration("T-101", "Delaware") >>] :
            rd \in { <<>>, << SubSeq(RACE_DAY_HEADERS, 1, 3), SubSeq(a, 1, 3) >>, << RACE_DAY_HEADERS, a >> } }

InitCache ==
    /\ fn = "closed"
    /\ args = None
    /\ pc = "open"
    /\ ret = None
    /\ sheets \in CachedSheets
    /\ retry = NoRetry
    /\ session = NoSession
    /\ cache = NoCache

\* a write through gsheet_db on the race_day sheet, then the cache cleared
WriteDone(name, a, ws) ==
    /\ Len(ws) <= MaxCachedRows + 1
    /\ fn' = name
    /\ args' = a
    /\ ret' = None
    /\ sheets' = [sheets EXCEPT !["race_day"] = ws]
    /\ cache' = _invalidate_read_cache(cache, "race_day")
    /\ UNCHANGED << pc, retry, session >>

\* read_sheet(sheet_key): the cached frame while there is one, else a read
\* of the worksheet that is kept
ReadSheet ==
    /\ \E sheet_key \in SheetKeys :
        /\ args' = [sheet_key |-> sheet_key, after |-> fn]
        /\ IF Cached(cache, sheet_key)
           THEN ret' = cache[sheet_key].frame /\ cache' = cache
           ELSE \E frame \in { _cached_read_sheet(sheets[sheet_key]) } :
                    ret' = frame /\ cache' = CachePut(cache, sheet_key, frame)
    /\ fn' = "read_sheet"
    /\ UNCHANGED << pc, sheets, retry, session >>

AppendRow ==
    \E track \in Tracks :
    \E row_data \in { Keyed(InfoData("Sunny"), "2025-06-08", track) } :
        WriteDone("append_row", [row_data |-> row_data], append_row(sheets["race_day"], row_data))

UpdateRow ==
    \E row_index \in 2..Len(sheets["race_day"]) :
    \E row_data \in { Keyed(InfoData("Rain"), "2025-06-01", "Other") } :
        WriteDone("update_row", [row_index |-> row_index, row_data |-> row_data], update_row(sheets["race_day"], row_index, row_data))

UpdateRowPartial ==
    \E row_index \in 2..Len(sheets["race_day"]) :
        WriteDone("update_row_partial", [row_index |-> row_index, row_data |-> QualData], update_row_partial(sheets["race_day"], row_index, QualData))

DeleteRow ==
    \E row_index \in 2..Len(sheets["race_day"]) :
        WriteDone("delete_row", [row_index |-> row_index], delete_row(sheets["race_day"], row_index))

\* the Race Day Log page opened: the header row is completed by a write
\* that does not go through the four operations
EnsureRaceDayHeaders ==
    /\ fn' = "ensure_race_day_headers"
    /\ args' = None
    /\ ret' = None
    /\ sheets' = [sheets EXCEPT !["race_day"] = ensure_race_day_headers(@, RACE_DAY_HEADERS)]
    /\ UNCHANGED << pc, retry, session, cache >>

Tick ==
    /\ cache # NoCache
    /\ cache' = Aged(cache, TickSeconds)
    /\ fn' = "sleep"
    /\ args' = None
    /\ ret' = None
    /\ UNCHANGED << pc, sheets, retry, session >>

NextCache ==
    \/ ReadSheet
    \/ AppendRow
    \/ UpdateRow
    \/ UpdateRowPartial
    \/ DeleteRow
    \/ EnsureRaceDayHeaders
    \/ Tick

SpecCache == InitCache /\ [][NextCache]_vars

----------------------------------------------------------------------------
(* views/tire_inventory.py: the inventory (sheet "tires") and the           *)
(* registrations (sheet "tire_reg").  A frame row k (from 1) has the        *)
(* DataFrame index k - 1.                                                   *)

TIRE_HEADERS ==
    << "tire_number", "brand", "compound", "mould_mark", "finish_size",
       "position", "status", "assigned_chassis", "date_purchased", "durometer",
       "circumference", "laps_run", "races_run", "notes", "created" >>

\* the rows the two sheets may grow to, header row not counted
MaxTires == 2
MaxRegistrations == 2

TireNumbers == { "T-101", "T-102" }

\* the statuses that register the new tire, and one that does not
AutoRegistered == { "Practice", "Delaware", "Series" }
Statuses == { "New", "Delaware" }

\* the row dict of "Save Tire"
NewTire(tire_number, status) ==
    << << "tire_number", PyText(tire_number) >>, << "brand", PyText("Hoosier") >>,
       << "compound", PyText("") >>, << "mould_mark", PyText("") >>,
       << "finish_size", PyText("") >>, << "position", PyText("LF") >>,
       << "status", PyText(status) >>, << "assigned_chassis", PyText("") >>,
       << "date_purchased", PyText("2025-06-01") >>, << "durometer", PyText("") >>,
       << "circumference", PyText("") >>, << "laps_run", PyInt(0) >>,
       << "races_run", PyInt(0) >>, << "notes", PyText("") >>,
       << "created", PyText("2025-06-01 10:00") >> >>

\* the row dict of a registration
NewRegistration(tire_number, category, loc_name) ==
    << << "tire_number", PyText(tire_number) >>, << "category", PyText(category) >>,
       << "track_or_series", PyText(loc_name) >>, << "mould_mark", PyText("") >>,
       << "finish_size", PyText("") >>, << "notes", PyText("") >>,
       << "registered_date", PyText("2025-06-01 10:00") >> >>

\* the position of a column of the frame, 0 when it has none of that name
ColumnOf(df, name) == IF InSeq(name, df.columns) THEN IndexOf(df.columns, name) ELSE 0

\* the frame rows (from 1) whose column col holds value, ascending
Matches(df, col, value) ==
    IF col = 0 THEN {} ELSE { k \in 1..Len(df.rows) : df.rows[k][col] = value }

Least(S) == CHOOSE k \in S : \A j \in S : k <= j
Greatest(S) == CHOOSE k \in S : \A j \in S : j <= k

\* for ri in sorted(matches, reverse=True): delete_row("tire_reg", ri + 2)
RECURSIVE DeleteEach(_, _)
DeleteEach(ws, S) ==
    IF S = {} THEN ws
    ELSE DeleteEach(delete_row(ws, (Greatest(S) - 1) + 2), S \ { Greatest(S) })

\* "Delete Selected Tire": the two sheets afterwards
DeleteTire(tires, tire_reg, del_sel) ==
    LET df      == read_sheet(tires)
        row_idx == (Least(Matches(df, ColumnOf(df, "tire_number"), del_sel)) - 1) + 2
        reg_df  == read_sheet(tire_reg)
    IN  [tires    |-> delete_row(tires, row_idx),
         tire_reg |-> DeleteEach(tire_reg, Matches(reg_df, ColumnOf(reg_df, "tire_number"), del_sel))]

\* the sheets as found: new; one tire and its registration; two tires with
\* a registration each; the same with a row of the registrations cleared by
\* hand in the spreadsheet
StoredTires ==
    LET t1 == RowValues(NewTire("T-101", "Delaware"), TIRE_HEADERS)
        t2 == RowValues(NewTire("T-102", "New"), TIRE_HEADERS)
        r1 == Registration("T-101", "Delaware")
        r2 == Registration("T-102", "Delaware")
        blank == [i \in 1..Len(TIRE_REG_HEADERS) |-> ""]
    IN  { [tires |-> <<>>, tire_reg |-> <<>>],
          [tires |-> << TIRE_HEADERS, t1 >>, tire_reg |-> << TIRE_REG_HEADERS, r1 >>],
          [tires |-> << TIRE_HEADERS, t1, t2 >>, tire_reg |-> << TIRE_REG_HEADERS, r1, r2 >>],
          [tires |-> << TIRE_HEADERS, t1, t2 >>, tire_reg |-> << TIRE_REG_HEADERS, blank, r1, r2 >>] }

InitTires ==
    /\ fn = "closed"
    /\ args = None
    /\ pc = "open"
    /\ ret = None
    /\ sheets \in StoredTires
    /\ retry = NoRetry
    /\ session = NoSession
    /\ cache = NoCache

\* "Save Tire": the tire is appended and, for three of the statuses,
\* registered under its status
SaveTire ==
    /\ \E tire_number \in TireNumbers, status \in Statuses :
       \E t \in { append_row(sheets["tires"], NewTire(tire_number, status)) } :
       \E r \in { IF status \in AutoRegistered
                  THEN append_row(sheets["tire_reg"], NewRegistration(tire_number, status, status))
                  ELSE sheets["tire_reg"] } :
        /\ Len(t) <= MaxTires + 1
        /\ Len(r) <= MaxRegistrations + 1
        /\ sheets' = [tires |-> t, tire_reg |-> r]
        /\ args' = [tire_number |-> tire_number, status |-> status]
    /\ fn' = "save_tire"
    /\ ret' = None
    /\ UNCHANGED << pc, retry, session, cache >>

\* "Register for <category>" with a tire chosen from the inventory
RegisterTire ==
    /\ \E df \in { read_sheet(sheets["tires"]) } :
       \E final_tire \in { df.rows[k][ColumnOf(df, "tire_number")] : k \in 1..Len(df.rows) } :
       \E r \in { append_row(sheets["tire_reg"], NewRegistration(final_tire, "Practice", "Sauble Speedway")) } :
        /\ Len(r) <= MaxRegistrations + 1
        /\ sheets' = [sheets EXCEPT !["tire_reg"] = r]
        /\ args' = [tire_number |-> final_tire]
    /\ fn' = "register_tire"
    /\ ret' = None
    /\ UNCHANGED << pc, retry, session, cache >>

\* "Remove Registration": the row of the first registration of the category
\* that carries the label chosen
RemoveRegistration ==
    /\ \E reg_df \in { read_sheet(sheets["tire_reg"]) } :
       \E category \in { "Practice", "Delaware" } :
       \E cat_data \in { Matches(reg_df, ColumnOf(reg_df, "category"), category) } :
       \E choice \in cat_data :
       \E tn \in { ColumnOf(reg_df, "tire_number") }, loc \in { ColumnOf(reg_df, "track_or_series") } :
       \E same \in { { k \in cat_data : reg_df.rows[k][tn] = reg_df.rows[choice][tn]
                                        /\ reg_df.rows[k][loc] = reg_df.rows[choice][loc] } } :
        /\ sheets' = [sheets EXCEPT !["tire_reg"] = delete_row(@, (Least(same) - 1) + 2)]
        /\ args' = [category |-> category, label |-> << reg_df.rows[choice][tn], reg_df.rows[choice][loc] >>]
    /\ fn' = "remove_registration"
    /\ ret' = None
    /\ UNCHANGED << pc, retry, session, cache >>

\* "Delete Selected Tire" for a tire of the selectbox
DeleteSelectedTire ==
    /\ \E df \in { read_sheet(sheets["tires"]) } :
       \E del_sel \in { df.rows[k][ColumnOf(df, "tire_number")] : k \in 1..Len(df.rows) } :
        /\ sheets' = DeleteTire(sheets["tires"], sheets["tire_reg"], del_sel)
        /\ args' = [del_sel |-> del_sel]
    /\ fn' = "delete_tire"
    /\ ret' = None
    /\ UNCHANGED << pc, retry, session, cache >>

NextTires ==
    \/ SaveTire
    \/ RegisterTire
    \/ RemoveRegistration
    \/ DeleteSelectedTire

SpecTires == InitTires /\ [][NextTires]_vars

----------------------------------------------------------------------------
(* utils/gsheet_db.py with two sessions on the race_day worksheet.  Every   *)
(* session runs its script in a thread of its own; one action is one call   *)
(* of the Sheets API, and session holds, per thread, the operation it is in *)
(* and its local variables.                                                 *)

Sessions == { 1, 2 }

\* the key each session saves under
KeyOf(s) == IF s = 1 THEN << "2025-06-08", "Other" >> ELSE << "2025-06-08", "Sauble Speedway" >>

Idle ==
    [op |-> "", pc |-> "idle", date_str |-> "", track |-> "", data |-> <<>>,
     row_index |-> 0, row_values |-> <<>>]

\* the sheet as found: new, headed, with one race day, with three (the
\* second one under the key of session 1)
SharedRaceDays ==
    LET a == << "2025-06-01", "Sauble Speedway", "Car A", "Sunny", "", "2025-06-01 16:00" >>
        k == << "2025-06-08", "Other", "Car A", "Rain", "", "2025-06-08 16:00" >>
        b == << "2025-06-01", "Other", "Car A", "", "P5", "2025-06-01 16:30" >>
    IN  { <<>>, << RACE_DAY_HEADERS >>, << RACE_DAY_HEADERS, a >>, << RACE_DAY_HEADERS, a, k, b >> }

InitSessions ==
    /\ fn = "closed"
    /\ args = None
    /\ pc = "open"
    /\ ret = None
    /\ \E ws \in SharedRaceDays : sheets = [NoSheets EXCEPT !.race_day = ws]
    /\ retry = NoRetry
    /\ session = [s \in Sessions |-> Idle]
    /\ cache = NoCache

\* session s goes on with the local variables loc; the call made is name
Step(s, name, a, result, ws, loc) ==
    /\ fn' = name
    /\ args' = [session |-> s, op |-> session[s].op] @@ a
    /\ ret' = result
    /\ sheets' = [sheets EXCEPT !.race_day = ws]
    /\ session' = [session EXCEPT ![s] = loc]
    /\ UNCHANGED << pc, retry, cache >>

\* where append_row hands back to: its caller is done, or upsert_race_day
\* looks for the row it created
AfterAppend(loc) == IF loc.op = "upsert_race_day" THEN "find_again" ELSE "done"

\* a form saved through append_row (pages/race_day_log.py)
CallAppendRow(s) ==
    /\ session[s].pc = "idle"
    /\ session' = [session EXCEPT ![s] =
            [Idle EXCEPT !.op = "append_row", !.pc = "append.get_all_values",
                         !.date_str = KeyOf(s)[1], !.track = KeyOf(s)[2],
                         !.data = Keyed(InfoData("Sunny"), KeyOf(s)[1], KeyOf(s)[2])]]
    /\ fn' = "append_row"
    /\ args' = [session |-> s, op |-> "append_row"]
    /\ ret' = None
    /\ UNCHANGED << pc, sheets, retry, cache >>

\* a race day deleted in View Logs
CallDeleteRow(s) ==
    /\ session[s].pc = "idle"
    /\ \E row_index \in 2..Len(sheets.race_day) :
        session' = [session EXCEPT ![s] = [Idle EXCEPT !.op = "delete_row", !.pc = "delete_rows", !.row_index = row_index]]
    /\ fn' = "delete_row"
    /\ args' = [session |-> s, op |-> "delete_row"]
    /\ ret' = None
    /\ UNCHANGED << pc, sheets, retry, cache >>

\* a form of Race Day Entry saved
CallUpsertRaceDay(s) ==
    /\ session[s].pc = "idle"
    /\ session' = [session EXCEPT ![s] =
            [Idle EXCEPT !.op = "upsert_race_day", !.pc = "find",
                         !.date_str = KeyOf(s)[1], !.track = KeyOf(s)[2], !.data = QualData]]
    /\ fn' = "upsert_race_day"
    /\ args' = [session |-> s, op |-> "upsert_race_day"]
    /\ ret' = None
    /\ UNCHANGED << pc, sheets, retry, cache >>

\* find_race_day inside upsert_race_day: ws.get_all_values(), then the
\* branch on row_index
Find(s) ==
    /\ session[s].pc = "find"
    /\ \E loc \in { session[s] } :
       \E found \in { find_race_day(sheets.race_day, loc.date_str, loc.track) } :
        IF ~IsNone(found.row_index)
        THEN Step(s, "ws.get_all_values", [at |-> "find_race_day"], found.row_index, sheets.race_day,
                  [loc EXCEPT !.pc = "update.row_values", !.row_index = Val(found.row_index),
                              !.data = Merged(Val(found.row_dict), loc.data, loc.date_str, loc.track)])
        ELSE Step(s, "ws.get_all_values", [at |-> "find_race_day"], found.row_index, sheets.race_day,
                  [loc EXCEPT !.pc = "append.get_all_values", !.data = Keyed(loc.data, loc.date_str, loc.track)])

\* update_row: ws.row_values(1)
ReadHeaders(s) ==
    /\ session[s].pc = "update.row_values"
    /\ \E loc \in { session[s] } :
       \E trimmed \in { Trimmed(row_values(sheets.race_day, 1)) } :
        Step(s, "ws.row_values", [at |-> "update_row"], trimmed, sheets.race_day,
             [loc EXCEPT !.pc = "update.update", !.row_values = RowValues(loc.data, trimmed)])

\* update_row: ws.update(cell_range, [row_values])
WriteRow(s) ==
    /\ session[s].pc = "update.update"
    /\ \E loc \in { session[s] } :
        Step(s, "ws.update", [at |-> "update_row", row_index |-> loc.row_index, date_str |-> loc.date_str, track |-> loc.track],
             None, WsUpdate(sheets.race_day, loc.row_index, loc.row_values), [loc EXCEPT !.pc = "done"])

\* append_row: ws.get_all_values(), then the branch on the header row
ReadAll(s) ==
    /\ session[s].pc = "append.get_all_values"
    /\ \E loc \in { session[s] } :
       \E existing \in { get_all_values(sheets.race_day) } :
        IF existing = <<>> \/ IsBlankRow(existing[1])
        THEN Step(s, "ws.get_all_values", [at |-> "append_row"], existing, sheets.race_day,
                  [loc EXCEPT !.pc = "append.update_A1", !.row_values = [i \in 1..Len(loc.data) |-> PyStr(loc.data[i][2])]])
        ELSE Step(s, "ws.get_all_values", [at |-> "append_row"], existing, sheets.race_day,
                  [loc EXCEPT !.pc = "append.append_row", !.row_values = RowValues(loc.data, Trimmed(existing[1]))])

\* append_row on an empty sheet: ws.update("A1", [headers])
WriteHeaders(s) ==
    /\ session[s].pc = "append.update_A1"
    /\ \E loc \in { session[s] } :
        Step(s, "ws.update", [at |-> "append_row", row_index |-> 1], None,
             WsUpdate(sheets.race_day, 1, DictKeys(loc.data)), [loc EXCEPT !.pc = "append.update_A2"])

\* append_row on an empty sheet: ws.update("A2", [row_values])
WriteData(s) ==
    /\ session[s].pc = "append.update_A2"
    /\ \E loc \in { session[s] } :
        Step(s, "ws.update", [at |-> "append_row", row_index |-> 2], None,
             WsUpdate(sheets.race_day, 2, loc.row_values), [loc EXCEPT !.pc = AfterAppend(loc)])

\* append_row on a headed sheet: ws.append_row(row_values)
AppendBelow(s) ==
    /\ session[s].pc = "append.append_row"
    /\ \E loc \in { session[s] } :
        Step(s, "ws.append_row", [at |-> "append_row"], None,
             WsAppendRow(sheets.race_day, loc.row_values), [loc EXCEPT !.pc = AfterAppend(loc)])

\* upsert_race_day: the row just created is looked up
FindAgain(s) ==
    /\ session[s].pc = "find_again"
    /\ \E loc \in { session[s] } :
        Step(s, "ws.get_all_values", [at |-> "find_race_day"],
             find_race_day(sheets.race_day, loc.date_str, loc.track).row_index, sheets.race_day,
             [loc EXCEPT !.pc = "done"])

\* delete_row: ws.delete_rows(row_index)
DeleteRows(s) ==
    /\ session[s].pc = "delete_rows"
    /\ \E loc \in { session[s] } :
        Step(s, "ws.delete_rows", [at |-> "delete_row", row_index |-> loc.row_index], None,
             WsDeleteRows(sheets.race_day, loc.row_index), [loc EXCEPT !.pc = "done"])

NextSessions ==
    \E s \in Sessions :
        \/ CallAppendRow(s)
        \/ CallDeleteRow(s)
        \/ CallUpsertRaceDay(s)
        \/ Find(s)
        \/ ReadHeaders(s)
        \/ WriteRow(s)
        \/ ReadAll(s)
        \/ WriteHeaders(s)
        \/ WriteData(s)
        \/ AppendBelow(s)
        \/ FindAgain(s)
        \/ DeleteRows(s)

SpecSessions == InitSessions /\ [][NextSessions]_vars

----------------------------------------------------------------------------
(* Properties of the front solver                                          *)

Returned(f) == pc = "return" /\ fn = f

\* the outer pivot heights at the travel of the call, and the arm slopes
\* (outer - inner) / (half_track - 4), as the specification states them
OuterLow(a) == RAdd(a.g.lca_outer_h, a.bump_in)
OuterUp(a) == RAdd(a.g.uca_outer_h, RMul(D(85, 100), a.bump_in))
SlopeLow(a) == RDiv(RSub(OuterLow(a), a.g.lca_inner_h), RSub(a.g.half_track, D(4, 1)))
SlopeUp(a) == RDiv(RSub(OuterUp(a), a.g.uca_inner_h), RSub(a.g.half_track, D(4, 1)))

ArmsParallel(a) ==
    /\ a.g.half_track # D(4, 1)
    /\ AbsLtPow(RSub(SlopeLow(a), SlopeUp(a)), 9)

ArmsMeet(a) ==
    /\ a.g.half_track # D(4, 1)
    /\ ~AbsLtPow(RSub(SlopeLow(a), SlopeUp(a)), 9)

\* C1: with parallel arms (slopes within 1e-9, half_track not 4) the solver
\* reports no instant centre, no FVSA and the roll centre at ground (0),
\* never a finite intersection.
Thm_C1 ==
    (Returned("_front_view_ic") /\ ArmsParallel(args))
        => /\ ret.ic_x = None
           /\ ret.ic_y = None
           /\ ret.fvsa = None
           /\ ret.rc_y = Some(Zero)

\* arms that become parallel only at a non-zero wheel travel
Wit_C1 ==
    /\ Returned("_front_view_ic")
    /\ ArmsParallel(args)
    /\ args.bump_in # Zero
    /\ ret.rc_y = Some(Zero)

\* C2 as stated: whenever the solver reports the instant centre undefined,
\* its roll-centre height is a defined number, also for half_track = 4.
Cex_C2 ==
    (Returned("_front_view_ic") /\ ret.ic_x = None) => ret.rc_y # None

IsNumber(v) == Len(v) = 2 /\ v[1] \in Int /\ v[2] \in Nat \ {0}

\* C2 amended: the height _calc_front_rc_height returns is always a number,
\* 0 when the instant centre is undefined; the solver's own rc_y is 0 for
\* parallel arms and undefined exactly when half_track is the offset 4.
Thm_C2 ==
    /\ Returned("_calc_front_rc_height")
        => /\ IsNumber(ret)
           /\ Solve(args.g, Zero).ic_x = None => ret = Zero
    /\ (Returned("_front_view_ic") /\ ret.ic_x = None)
        => IF args.g.half_track = D(4, 1)
           THEN ret.rc_y = None
           ELSE ret.rc_y = Some(Zero)

Wit_C2 ==
    /\ Returned("_calc_front_rc_height")
    /\ args.g.half_track = D(4, 1)
    /\ ret = Zero

\* the closed form of the specification
StarX(a) ==
    RAdd(D(4, 1), RDiv(RSub(a.g.uca_inner_h, a.g.lca_inner_h), RSub(SlopeLow(a), SlopeUp(a))))
StarY(a) ==
    RAdd(a.g.lca_inner_h, RMul(SlopeLow(a), RSub(StarX(a), D(4, 1))))
StarRc(a) ==
    RDiv(RNeg(RMul(a.g.half_track, StarY(a))), RSub(StarX(a), a.g.half_track))

Scenario1(a) ==
    /\ a.g.lca_inner_h = D(6, 1) /\ a.g.lca_outer_h = D(11, 2)
    /\ a.g.uca_inner_h = D(14, 1) /\ a.g.uca_outer_h = D(13, 1)
    /\ a.g.half_track = D(30, 1) /\ a.bump_in = Zero

IcIsStar(a, r) ==
    /\ r.ic_x = Some(Round(StarX(a), 2))
    /\ r.ic_y = Some(Round(StarY(a), 2))

\* C3 as stated: whenever the slopes differ by at least 1e-9 the instant
\* centre is (x*, y*) and the roll-centre height is the height at x = 0 of
\* the line from (half_track, 0) through it, -half_track y* / (x* - half_track)
\* (values as returned: 2 and 3 decimals).
Cex_C3 ==
    (Returned("_front_view_ic") /\ ArmsMeet(args))
        => /\ IcIsStar(args, ret)
           /\ StarX(args) # args.g.half_track
           /\ ret.rc_y = Some(Round(StarRc(args), 3))

\* C3 amended: as stated while x* differs from half_track by more than 1e-9;
\* when the instant centre is straight above or below the contact patch the
\* line never meets x = 0 and the solver returns y* as the height.  Scenario
\* 6/5.5, 14/13, half-track 30, travel 0: IC (420, -2), height 0.154.
Thm_C3 ==
    (Returned("_front_view_ic") /\ ArmsMeet(args))
        => /\ IcIsStar(args, ret)
           /\ IF AbsGtPow(RSub(StarX(args), args.g.half_track), 9)
              THEN ret.rc_y = Some(Round(StarRc(args), 3))
              ELSE ret.rc_y = Some(Round(StarY(args), 3))
           /\ Scenario1(args)
                => /\ ret.ic_x = Some(D(420, 1))
                   /\ ret.ic_y = Some(D(-2, 1))
                   /\ ret.rc_y = Some(D(154, 1000))

Wit_C3 ==
    /\ Returned("_front_view_ic")
    /\ Scenario1(args)
    /\ ret.rc_y = Some(D(154, 1000))

\* the geometry at rest that stands where geometry g stands at travel t
Displaced(g, t) ==
    [g EXCEPT !.lca_outer_h = RAdd(g.lca_outer_h, t), !.uca_outer_h = RAdd(g.uca_outer_h, RMul(D(85, 100), t))]

\* C4: solving at travel t gives exactly the result of solving at travel 0
\* the geometry whose lower outer pivot is raised by t and whose upper outer
\* pivot is raised by 0.85 t.
Thm_C4 ==
    Returned("_front_view_ic") => ret = Solve(Displaced(args.g, args.bump_in), Zero)

Wit_C4 ==
    /\ Returned("_front_view_ic")
    /\ args.bump_in # Zero
    /\ ret.ic_x # None
    /\ ret.uca_outer_h # args.g.uca_outer_h

----------------------------------------------------------------------------
(* Properties of the rear solver                                           *)

RearDegenerate(a) == AbsLtPow(RSub(a.upper_axle_offset, a.upper_frame_offset), 3)

\* the upper-link line projected to x = 0
RearProjection(a) ==
    RSub(a.upper_frame_h,
         RMul(RDiv(RSub(a.upper_axle_h, a.upper_frame_h), RSub(a.upper_axle_offset, a.upper_frame_offset)),
              a.upper_frame_offset))

RearMean(a) == RDiv(RAdd(a.upper_frame_h, a.upper_axle_h), D(2, 1))

Scenario2(a) ==
    /\ a.upper_frame_h = D(18, 1) /\ a.upper_axle_h = D(16, 1)
    /\ a.upper_frame_offset = D(2, 1) /\ a.upper_axle_offset = D(6, 1)

\* C5 as stated: for |axle_offset - frame_offset| >= 0.001 the function
\* returns the projection frame_height - slope * frame_offset itself.
Cex_C5 ==
    (Returned("_calc_rear_rc_height") /\ ~RearDegenerate(args))
        => ret = RearProjection(args)

\* C5 amended: it returns that projection rounded to 3 decimals; for frame
\* height 18, axle height 16, offsets 2 and 6 the result is 19.0.
Thm_C5 ==
    (Returned("_calc_rear_rc_height") /\ ~RearDegenerate(args))
        => /\ ret = Round(RearProjection(args), 3)
           /\ Scenario2(args) => ret = D(19, 1)

Wit_C5 ==
    /\ Returned("_calc_rear_rc_height")
    /\ Scenario2(args)
    /\ ret = D(19, 1)

\* C6 as stated: for |axle_offset - frame_offset| < 0.001 the height returned
\* is (frame_height + axle_height) / 2 exactly.
Cex_C6 ==
    (Returned("_calc_rear_rc_height") /\ RearDegenerate(args))
        => ret = RearMean(args)

\* C6 amended: it is (frame_height + axle_height) / 2 rounded to 3 decimals.
Thm_C6 ==
    (Returned("_calc_rear_rc_height") /\ RearDegenerate(args))
        => ret = Round(RearMean(args), 3)

\* a degenerate link whose two offsets are not equal
Wit_C6 ==
    /\ Returned("_calc_rear_rc_height")
    /\ RearDegenerate(args)
    /\ args.upper_axle_offset # args.upper_frame_offset
    /\ args.upper_frame_h # args.upper_axle_h

Dist(x, y) == RAbs(RSub(x, y))

RearAt(a, axle_offset) ==
    _calc_rear_rc_height(a.upper_frame_h, a.upper_axle_h, a.upper_frame_offset, axle_offset)

FrameOnCentreline(a) ==
    /\ a.upper_frame_offset = Zero
    /\ RLt(a.upper_frame_h, a.upper_axle_h)

\* C7 as stated: with frame_height < axle_height and frame_offset = 0, a
\* larger axle_offset never brings the height closer to frame_height.
Cex_C7 ==
    (Returned("_calc_rear_rc_height") /\ FrameOnCentreline(args))
        => \A o \in Offsets :
              RLt(args.upper_axle_offset, o)
                  => RLe(Dist(ret, args.upper_frame_h), Dist(RearAt(args, o), args.upper_frame_h))

\* C7 amended: with frame_height < axle_height and frame_offset = 0 the
\* height is frame_height (to 3 decimals) for every axle_offset of at least
\* 0.001 and the mean of the two heights below that, so a larger axle_offset
\* never takes it further from frame_height.
Thm_C7 ==
    (Returned("_calc_rear_rc_height") /\ FrameOnCentreline(args))
        => /\ IF RearDegenerate(args)
              THEN ret = Round(RearMean(args), 3)
              ELSE ret = Round(args.upper_frame_h, 3)
           /\ \A o \in Offsets :
                 RLt(args.upper_axle_offset, o)
                     => RLe(Dist(RearAt(args, o), args.upper_frame_h), Dist(ret, args.upper_frame_h))

Wit_C7 ==
    /\ Returned("_calc_rear_rc_height")
    /\ FrameOnCentreline(args)
    /\ RLt(D(1, 1), args.upper_axle_offset)
    /\ ret = args.upper_frame_h

----------------------------------------------------------------------------
(* Properties of the solver's handling of bad input                        *)

ShortArm(g) == g.lca_len[1] <= 0 \/ g.uca_len[1] <= 0

NoData(r) == r.ic_x = None /\ r.ic_y = None /\ r.fvsa = None /\ r.rc_y \in { None, Some(Zero) }

WithDefaultArms(a) ==
    _front_view_ic(D(12, 1), D(10, 1), a.g.lca_inner_h, a.g.lca_outer_h, a.g.uca_inner_h, a.g.uca_outer_h, a.g.half_track, a.bump_in)

HasRaised(f) == Returned(f) /\ ret = Raised("ZeroDivisionError")

\* C12: no computation of the engine propagates an exception; for every
\* input, parallel arms, half_track 4, a non-positive motion ratio and a
\* sample count of 1 included, each returns a defined result.
Cex_C12 ==
    /\ Returned("_front_view_ic") => IsNumber(ret.camber)
    /\ Returned("_calc_front_rc_height") => IsNumber(ret)
    /\ Returned("_calc_rear_rc_height") => IsNumber(ret)
    /\ Returned("_calc_spring_rate") => IsNumber(ret)
    /\ Returned("_calc_wheel_rate") => IsNumber(ret)
    /\ Returned("_calc_ride_frequency") => IsNumber(ret)
    /\ Returned("_calc_camber_gain") => (Len(ret) >= 1 /\ \A k \in 1..Len(ret) : IsNumber(ret[k][2]))
    /\ ~HasRaised("_calc_sweep_data")

----------------------------------------------------------------------------
(* Properties of the front-view diagram under body roll                    *)

BothSidesHaveRc(r) == ~IsNone(r.geo_r.rc_y) /\ ~IsNone(r.geo_l.rc_y)

Mean(x, y) == RDiv(RAdd(x, y), D(2, 1))

\* C13: with a body-roll angle other than zero the solver runs once per
\* side, the right side at travel + half_track * sin(roll) and the left at
\* travel - half_track * sin(roll), and the diagram's roll centre is the mean
\* of the two sides' roll-centre heights; with zero roll it is the right
\* side's value.
Thm_C13 ==
    Returned("_draw_front_view_rc")
        => LET shift == RollShift(args.g.half_track, args.roll_deg)
           IN  /\ ret.r_bump = RAdd(args.bump_in, shift)
               /\ ret.l_bump = RSub(args.bump_in, shift)
               /\ Sign(shift[1]) = Sign(args.roll_deg[1])
               /\ ret.geo_r = Solve(args.g, ret.r_bump)
               /\ ret.geo_l = Solve(args.g, ret.l_bump)
               /\ (args.roll_deg # Zero /\ BothSidesHaveRc(ret))
                     => ret.rc_marker = Mean(Val(ret.geo_r.rc_y), Val(ret.geo_l.rc_y))
               /\ (args.roll_deg = Zero /\ ~IsNone(ret.geo_r.rc_y))
                     => ret.rc_marker = Val(ret.geo_r.rc_y)

\* 5 degrees of roll on a half-track of 30: the sides are 2.61 in above and
\* below the wheel travel and their roll centres differ
Wit_C13 ==
    /\ Returned("_draw_front_view_rc")
    /\ args.roll_deg = D(5, 1)
    /\ args.bump_in = D(1, 1)
    /\ ret.r_bump = D(361, 100)
    /\ ret.l_bump = D(-161, 100)
    /\ BothSidesHaveRc(ret)
    /\ ret.geo_r.rc_y # ret.geo_l.rc_y
    /\ ret.rc_marker # Val(ret.geo_r.rc_y)
    /\ ret.rc_marker = Mean(Val(ret.geo_r.rc_y), Val(ret.geo_l.rc_y))

----------------------------------------------------------------------------
(* Properties of the camber-gain table and the sweep                      *)

OddCount(n) == n % 2 = 1

\* C8: the camber change at the travel = 0 sample is exactly 0 in the table
\* and in the sweep; with an odd sample count that sample is the middle one,
\* index len // 2, the one the sweep tab shows as the static value.
Thm_C8 ==
    /\ Returned("tab_sweep")
        => /\ ret.mid_idx = Len(ret.sweep.travels) \div 2
           /\ ret.sweep.travels[ret.mid_idx + 1] = Zero
           /\ ret.sweep.camber_changes[ret.mid_idx + 1] = Zero
           /\ ret.static_camber = Zero
           /\ \A k \in 1..Len(ret.sweep.travels) :
                 ret.sweep.travels[k] = Zero => ret.sweep.camber_changes[k] = Zero
    /\ Returned("tab_camber")
        => /\ ret.camber_data[Len(ret.camber_data) \div 2 + 1] = << Zero, Zero >>
           /\ \A k \in 1..Len(ret.camber_data) :
                 ret.camber_data[k][1] = Zero => ret.camber_data[k][2] = Zero
    /\ (Returned("_calc_sweep_data") /\ args.steps > 1)
        => /\ \A k \in 1..args.steps :
                 ret.travels[k] = Zero => ret.camber_changes[k] = Zero
           /\ OddCount(args.steps)
                 => /\ ret.travels[args.steps \div 2 + 1] = Zero
                    /\ ret.camber_changes[args.steps \div 2 + 1] = Zero
    /\ (Returned("_calc_camber_gain") /\ args.steps > 1)
        => /\ \A k \in 1..args.steps : ret[k][1] = Zero => ret[k][2] = Zero
           /\ OddCount(args.steps) => ret[args.steps \div 2 + 1] = << Zero, Zero >>

\* a sweep whose camber does change away from the static position
Wit_C8 ==
    /\ Returned("tab_sweep")
    /\ ret.static_camber = Zero
    /\ ret.sweep.camber_changes[1] # Zero
    /\ ret.sweep.camber_changes[SweepSteps] # Zero

----------------------------------------------------------------------------
(* Properties of the spring conversions                                    *)

AllPositive(a) == RPos(a.weight_on_wheel) /\ RPos(a.desired_freq) /\ RPos(a.motion_ratio)

RoundTrip(a, k) == _calc_ride_frequency(k, a.weight_on_wheel, a.motion_ratio)

\* C9 as stated: for w, f, m > 0 the frequency of the spring rate computed
\* for f is f again, within floating-point tolerance (here 10^-6).
Cex_C9 ==
    (Returned("_calc_spring_rate") /\ AllPositive(args))
        => AbsLtPow(RSub(RoundTrip(args, ret), args.desired_freq), 6)

\* f is a whole number of hundredths of a hertz
Hundredths(f) == 100 % f[2] = 0

\* C9 amended: the spring rate is rounded to 0.1 and the frequency to 0.01,
\* so the round trip gives f exactly when f >= 1 is a multiple of 0.01 Hz
\* and the spring rate returned is at least 10 f; below that it may differ
\* (w = 5, f = 1, m = 1 gives 0.99).
Thm_C9 ==
    (/\ Returned("_calc_spring_rate")
     /\ AllPositive(args)
     /\ Hundredths(args.desired_freq)
     /\ RLe(D(1, 1), args.desired_freq)
     /\ RLe(RMul(D(10, 1), args.desired_freq), ret))
        => RoundTrip(args, ret) = args.desired_freq

Wit_C9 ==
    /\ Returned("_calc_spring_rate")
    /\ AllPositive(args)
    /\ args.motion_ratio # D(1, 1)
    /\ RLe(RMul(D(10, 1), args.desired_freq), ret)
    /\ RoundTrip(args, ret) = args.desired_freq

\* C10 as stated: each of the three conversions returns zero whenever its
\* weight, frequency or spring-rate argument is non-positive.
Cex_C10 ==
    /\ (Returned("_calc_spring_rate") /\ (~RPos(args.weight_on_wheel) \/ ~RPos(args.desired_freq)))
        => ret = Zero
    /\ (Returned("_calc_ride_frequency") /\ (~RPos(args.weight_on_wheel) \/ ~RPos(args.spring_rate)))
        => ret = Zero
    /\ (Returned("_calc_wheel_rate") /\ ~RPos(args.spring_rate))
        => ret = Zero

\* C10 amended: the spring-rate and the frequency conversion return zero for
\* a non-positive weight, frequency or spring rate; the wheel-rate conversion
\* has no guard and returns spring_rate * motion_ratio^2 rounded to 1
\* decimal, which is zero for spring rate 0 and otherwise not above zero.
Thm_C10 ==
    /\ (Returned("_calc_spring_rate") /\ (~RPos(args.weight_on_wheel) \/ ~RPos(args.desired_freq)))
        => ret = Zero
    /\ (Returned("_calc_ride_frequency") /\ (~RPos(args.weight_on_wheel) \/ ~RPos(args.spring_rate)))
        => ret = Zero
    /\ (Returned("_calc_wheel_rate") /\ ~RPos(args.spring_rate))
        => /\ ret = Round(RMul(args.spring_rate, RMul(args.motion_ratio, args.motion_ratio)), 1)
           /\ RLe(ret, Zero)
           /\ args.spring_rate = Zero => ret = Zero

Wit_C10 ==
    /\ Returned("_calc_spring_rate")
    /\ RPos(args.weight_on_wheel)
    /\ RPos(args.motion_ratio)
    /\ RLt(args.desired_freq, Zero)
    /\ ret = Zero

----------------------------------------------------------------------------
(* Properties of the sampling                                              *)

\* -R + (k - 1) * 2R / (N - 1), the k-th of N uniformly spaced travels
UniformTravel(R, N, k) == RAdd(RNeg(R), RMul(D(k - 1, 1), RDiv(RMul(D(2, 1), R), D(N - 1, 1))))

StrictlyIncreasing(t) == \A k \in 1..(Len(t) - 1) : RLt(t[k], t[k + 1])

TableTravels(table) == [k \in 1..Len(table) |-> table[k][1]]

\* the travels are N values, the k-th being UniformTravel rounded to `digits`
RoundedUniform(t, R, N, digits) ==
    /\ Len(t) = N
    /\ \A k \in 1..N : t[k] = Round(UniformTravel(R, N, k), digits)
    /\ t[1] = RNeg(R)
    /\ t[N] = R
    /\ StrictlyIncreasing(t)

ExactlyUniform(t, R, N) ==
    /\ Len(t) = N
    /\ \A k \in 1..N : t[k] = UniformTravel(R, N, k)
    /\ StrictlyIncreasing(t)

\* the four series have N entries each; a sample without roll centre or
\* without FVSA holds 0 there
SeriesAligned(sw, g, R, N) ==
    /\ Len(sw.travels) = N
    /\ Len(sw.rc_heights) = N
    /\ Len(sw.fvsa_lengths) = N
    /\ Len(sw.camber_changes) = N
    /\ \A k \in 1..N :
          LET geo == Solve(g, UniformTravel(R, N, k))
          IN  /\ IsNone(geo.rc_y) => sw.rc_heights[k] = Zero
              /\ IsNone(geo.fvsa) => sw.fvsa_lengths[k] = Zero
              /\ ~IsNone(geo.rc_y) => sw.rc_heights[k] = Val(geo.rc_y)
              /\ ~IsNone(geo.fvsa) => sw.fvsa_lengths[k] = Val(geo.fvsa)

\* C14 as stated: for R > 0 and N >= 2 the table and the sweep hold exactly N
\* samples whose travels are strictly increasing, spaced by exactly
\* 2R / (N - 1), from -R to +R; the sweep's four series have length N with a
\* missing roll-centre height or FVSA recorded as 0.
Cex_C14 ==
    /\ (Returned("_calc_camber_gain") /\ args.steps >= 2)
         => ExactlyUniform(TableTravels(ret), args.travel_range, args.steps)
    /\ (Returned("_calc_sweep_data") /\ args.steps >= 2)
         => /\ ExactlyUniform(ret.travels, args.travel_range, args.steps)
            /\ SeriesAligned(ret, args.g, args.travel_range, args.steps)

\* C14 amended: the travel recorded for sample k is -R + 2R k / (N - 1)
\* rounded to 2 decimals in the table and to 3 decimals in the sweep, so the
\* recorded values are N strictly increasing values from -R to +R whose
\* spacing is uniform only up to that rounding; the sweep's four series have
\* length N with a missing roll-centre height or FVSA recorded as 0.
Thm_C14 ==
    /\ (Returned("_calc_camber_gain") /\ args.steps >= 2)
         => RoundedUniform(TableTravels(ret), args.travel_range, args.steps, 2)
    /\ (Returned("_calc_sweep_data") /\ args.steps >= 2)
         => /\ RoundedUniform(ret.travels, args.travel_range, args.steps, 3)
            /\ SeriesAligned(ret, args.g, args.travel_range, args.steps)
    /\ Returned("tab_camber")
         => RoundedUniform(TableTravels(ret.camber_data), args.cg_range, CamberSteps, 2)
    /\ Returned("tab_sweep")
         => /\ RoundedUniform(ret.sweep.travels, args.sw_range, SweepSteps, 3)
            /\ SeriesAligned(ret.sweep, args.g, args.sw_range, SweepSteps)

\* a sweep of 4 samples over -1..1: the inner travels are recorded as
\* -0.333 and 0.333, and the last sample, where the arms are parallel, has
\* no FVSA and holds 0
Wit_C14 ==
    /\ Returned("_calc_sweep_data")
    /\ args.steps = 4
    /\ args.travel_range = D(1, 1)
    /\ ret.travels = << D(-1, 1), D(-333, 1000), D(333, 1000), D(1, 1) >>
    /\ IsNone(Solve(args.g, D(1, 1)).fvsa)
    /\ ret.fvsa_lengths[4] = Zero
    /\ ret.fvsa_lengths[3] # Zero

----------------------------------------------------------------------------
(* Properties of the comparison of two saved records                       *)

\* what the cell under key holds in entry k of the frame
RawCell(df, k, key) == RowGet(df.columns, df.rows[k], key)

\* the two cells under key both read as numbers
BothParse(df, a, b, key) ==
    /\ ~IsNone(ParseFloat(RawCell(df, a, key), LogNumerals))
    /\ ~IsNone(ParseFloat(RawCell(df, b, key), LogNumerals))

\* value_B - value_A under key
ExactDelta(df, a, b, key) ==
    RSub(Val(ParseFloat(RawCell(df, b, key), LogNumerals)), Val(ParseFloat(RawCell(df, a, key), LogNumerals)))

\* how a delta is displayed
DeltaText(d) == IF d = Zero THEN "--" ELSE SignedFixed3(d)

\* the table displayed for the selection is the one the claim describes,
\* with the deltas rounded to digits decimals
ComparedAs(shown, df, a, b) ==
    \A k \in 1..Len(compare_keys) :
        LET key == compare_keys[k][1]
        IN  IF BothParse(df, a, b, key)
            THEN shown[k].Difference = DeltaText(Round(ExactDelta(df, a, b, key), 3))
            ELSE /\ shown[k].SetupA = PyText(RawCell(df, a, key))
                 /\ shown[k].SetupB = PyText(RawCell(df, b, key))
                 /\ shown[k].Difference = ""

\* the table for B against A carries the negated deltas
SwapNegates(shown, df, a, b) ==
    \A k \in 1..Len(compare_keys) :
        BothParse(df, a, b, compare_keys[k][1])
            => CompareTable(df, b, a, LogNumerals)[k].Difference = DeltaText(RNeg(Round(ExactDelta(df, a, b, compare_keys[k][1]), 3)))

\* a record against itself shows no delta
SelfShowsNone(df, a) ==
    \A k \in 1..Len(compare_keys) :
        CompareTable(df, a, a, LogNumerals)[k].Difference \in { "--", "" }

\* C15 as stated: for every tracked field whose two values both parse,
\* the delta shown is value_B - value_A itself
Cex_C15 ==
    fn = "compare_setups" =>
        LET df == read_sheet(sheets.roll_centres)
        IN  \A k \in 1..Len(compare_keys) :
                BothParse(df, args.sel_a, args.sel_b, compare_keys[k][1]) =>
                    LET d == ExactDelta(df, args.sel_a, args.sel_b, compare_keys[k][1])
                    IN  Round(d, 3) = d /\ ret[k].Difference = DeltaText(d)

\* C15, amended: comparing saved records A and B, for every tracked field
\* whose two values both parse as numbers the delta shown is
\* value_B - value_A rounded to 3 decimals, and no delta when that is zero
\* (so swapping A and B negates every delta, and a record against itself
\* shows none); a field where either value fails to parse is shown as the
\* raw strings with an empty delta; the comparison writes nothing to the
\* sheet.
Thm_C15 ==
    [][fn' = "compare_setups" =>
        /\ sheets' = sheets
        /\ LET df == read_sheet(sheets.roll_centres)
           IN  /\ ComparedAs(ret', df, args'.sel_a, args'.sel_b)
               /\ SwapNegates(ret', df, args'.sel_a, args'.sel_b)
               /\ SelfShowsNone(df, args'.sel_a)]_vars

\* a comparison was shown with a non-zero delta, with two different
\* numbers whose delta rounds to zero, and with a field that does not parse
Wit_C15 ==
    /\ fn = "compare_setups"
    /\ \E k \in 1..Len(ret) : ret[k].Difference \notin { "--", "" }
    /\ \E k \in 1..Len(ret) :
        /\ ret[k].Difference = "--"
        /\ ret[k].SetupA.v # ret[k].SetupB.v
    /\ \E k \in 1..Len(ret) : ret[k].Difference = "" /\ ret[k].SetupA.py = "str"

----------------------------------------------------------------------------
(* Properties of "Save to Log"                                             *)

\* the new grid is the old one with one row added below it
AddsOneRow(old, new) ==
    /\ Len(new) = Len(old) + 1
    /\ \A i \in 1..Len(old) : new[i] = old[i]

\* C16: every "Save to Log" adds exactly one new row to the roll_centres
\* table and leaves every existing row's content and relative order
\* unchanged, so saving the same inputs twice yields two rows.
Thm_C16 ==
    [][fn' = "save_to_log" => AddsOneRow(sheets.roll_centres, sheets'.roll_centres)]_vars

\* the same inputs were saved twice and stand in two rows
Wit_C16 ==
    /\ fn = "save_to_log"
    /\ Len(sheets.roll_centres) >= 3
    /\ sheets.roll_centres[Len(sheets.roll_centres)] = RowValues(ret, sheets.roll_centres[1])
    /\ sheets.roll_centres[Len(sheets.roll_centres) - 1] = sheets.roll_centres[Len(sheets.roll_centres)]

\* the front inputs of a saved row, as the solver takes them
FrontOf(inp) ==
    [lca_len |-> inp.f_lca_len, uca_len |-> inp.f_uca_len, lca_inner_h |-> inp.f_lca_inner_h, lca_outer_h |-> inp.f_lca_outer_h, uca_inner_h |-> inp.f_uca_inner_h, uca_outer_h |-> inp.f_uca_outer_h, half_track |-> inp.f_spindle_h]

\* the roll-centre height of the front at zero travel, 0 when there is none
ZeroTravelRc(inp) ==
    LET geo == Solve(FrontOf(inp), Zero)
    IN  IF IsNone(geo.rc_y) THEN Zero ELSE Val(geo.rc_y)

\* C18: every row written by "Save to Log" carries exactly the 23 fields
\* of ALL_HEADERS, its front_rc_height is the zero-travel front
\* roll-centre height, and its rc_height_diff equals rear_rc_height minus
\* front_rc_height rounded to 3 decimals; the cells written are these
\* values under their headers.
Thm_C18 ==
    fn = "save_to_log" =>
        /\ DictKeys(ret) = ALL_HEADERS
        /\ Len(ALL_HEADERS) = 23
        /\ DictGet(ret, "front_rc_height", None) = PyFloat(ZeroTravelRc(args))
        /\ DictGet(ret, "rc_height_diff", None) = PyFloat(Round(RSub(DictGet(ret, "rear_rc_height", None).v, DictGet(ret, "front_rc_height", None).v), 3))
        /\ LET grid == sheets.roll_centres
           IN  \A i \in 1..Len(grid[1]) :
                   InSeq(grid[1][i], ALL_HEADERS) => grid[Len(grid)][i] = PyStr(DictGet(ret, grid[1][i], None))

\* a row was saved whose difference of heights is not zero
Wit_C18 ==
    /\ fn = "save_to_log"
    /\ DictGet(ret, "rc_height_diff", None).v # Zero
    /\ DictGet(ret, "front_rc_height", None).v # Zero
    /\ Len(sheets.roll_centres[1]) = 23

----------------------------------------------------------------------------
(* Properties of the deletion of a log entry                               *)

\* the grid lost exactly the row that holds the record rec
RemovedExactly(old, new, rec) ==
    \E i \in 2..Len(old) :
        /\ SubSeq(old[i], 1, Len(rec)) = rec
        /\ new = WsDeleteRows(old, i)

\* C17: deleting an entry in the Log / History tab removes exactly the
\* record shown as selected and no other record, for every table content
\* and every choice of the chassis filter.
Cex_C17 ==
    [][(fn' = "delete_entry" /\ "shown" \in DOMAIN ret')
        => RemovedExactly(sheets.roll_centres, sheets'.roll_centres, ret'.shown)]_vars

----------------------------------------------------------------------------
(* Properties of the retry loops                                           *)

\* the attempts made so far, in order
CallsMade == SelectSeq(retry.log, LAMBDA e : e[1] = "call")

\* the first attempt whose outcome is not an API error, 0 when all are
FirstSettled(script) ==
    IF \A i \in 1..Len(script) : script[i] = "api" THEN 0
    ELSE CHOOSE i \in 1..Len(script) : script[i] # "api" /\ \A j \in 1..(i - 1) : script[j] = "api"

\* between two attempts: a wait of 2^attempt seconds, then the cached
\* handle cleared
BackoffBetween(log) ==
    \A i \in 1..Len(log) :
        (log[i][1] = "call" /\ i < Len(log))
            => /\ i + 2 <= Len(log)
               /\ log[i + 1] = << "sleep", IF log[i][2] = 0 THEN 1 ELSE 2 >>
               /\ log[i + 2] = << "clear", log[i][2] >>
               /\ i + 3 <= Len(log) => log[i + 3] = << "call", log[i][2] + 1 >>

\* C19: _api_retry and get_spreadsheet invoke the wrapped call at most 3
\* times; the first successful attempt's result is returned with no
\* further attempt; after a failed attempt that is not the last the code
\* waits 1 s, then 2 s, and clears the cached handle before retrying; if
\* all 3 attempts raise an API error the third error is raised; another
\* exception propagates on its first occurrence without retry.
Thm_C19 ==
    fn \in RetryLoops =>
        /\ Len(CallsMade) <= 3
        /\ \A i \in 1..Len(CallsMade) : CallsMade[i] = << "call", i - 1 >>
        /\ BackoffBetween(retry.log)
        /\ pc = "done" =>
            LET k == FirstSettled(args)
            IN  /\ retry.log[Len(retry.log)][1] = "call"
                /\ k = 0 => ret = [raised |-> << "APIError", 2 >>] /\ Len(CallsMade) = 3
                /\ (k # 0 /\ args[k] = "ok") => ret = [returned |-> << "result", k - 1 >>] /\ Len(CallsMade) = k
                /\ (k # 0 /\ args[k] = "other") => ret = [raised |-> << "Exception", k - 1 >>] /\ Len(CallsMade) = k

\* three attempts failed with an API error, with waits of 1 s and 2 s
Wit_C19 ==
    /\ fn \in RetryLoops
    /\ pc = "done"
    /\ ret = [raised |-> << "APIError", 2 >>]
    /\ retry.log = << << "call", 0 >>, << "sleep", 1 >>, << "clear", 0 >>, << "call", 1 >>, << "sleep", 2 >>, << "clear", 1 >>, << "call", 2 >> >>

----------------------------------------------------------------------------
(* Properties of the race_day sheet                                        *)

\* the column headed name
ColOf(grid, name) == CHOOSE i \in 1..Len(grid[1]) : grid[1][i] = name

\* the (date, track) of row r
KeyAt(grid, r) == << Strip(grid[r][ColOf(grid, "date")]), Strip(grid[r][ColOf(grid, "track")]) >>

OneRowPerKey(grid) ==
    \A r, q \in 2..Len(grid) : KeyAt(grid, r) = KeyAt(grid, q) => r = q

\* row r of the new grid holds the supplied fields and the key, and under
\* every other header what rest holds there
RowHolds(new, r, supplied, rest) ==
    \A i \in 1..Len(new[1]) :
        new[r][i] = IF DictHas(supplied, new[1][i]) THEN PyStr(DictGet(supplied, new[1][i], None)) ELSE rest[i]

\* what one call does to the grid and returns
UpsertEffect(old, new, a, idx) ==
    LET holders  == { r \in 2..Len(old) : KeyAt(old, r) = << a.date_str, a.track >> }
        supplied == Keyed(a.data, a.date_str, a.track)
    IN  IF holders # {}
        THEN \E r \in holders :
                /\ idx = Some(r)
                /\ Len(new) = Len(old)
                /\ \A q \in 1..Len(old) : q # r => new[q] = old[q]
                /\ RowHolds(new, r, supplied, old[r])
        ELSE /\ idx = Some(Len(old) + 1)
             /\ Len(new) = Len(old) + 1
             /\ \A q \in 1..Len(old) : new[q] = old[q]
             /\ RowHolds(new, Len(new), supplied, [i \in 1..Len(new[1]) |-> ""])

----------------------------------------------------------------------------
(* The control-arm lengths and the front solver                            *)

\* arm lengths to exchange for the ones given
OtherLengths == ArmLengthPairs \cup { << D(12, 1), D(10, 1) >>, << D(25, 2), D(9, 1) >> }

WithArms(g, p) == [g EXCEPT !.lca_len = p[1], !.uca_len = p[2]]

\* C24: the front solver's output does not depend on the control-arm
\* lengths: for inputs that differ only in lca_length and/or uca_length,
\* _front_view_ic, the camber-gain table and the sweep return the same.
Thm_C24 ==
    /\ Returned("_front_view_ic") =>
            \A p \in OtherLengths : Solve(WithArms(args.g, p), args.bump_in) = ret
    /\ Returned("_calc_camber_gain") =>
            \A p \in OtherLengths : _calc_camber_gain(WithArms(args.g, p), args.travel_range, args.steps) = ret
    /\ Returned("_calc_sweep_data") =>
            \A p \in OtherLengths : _calc_sweep_data(WithArms(args.g, p), args.travel_range, args.steps) = ret

\* a sweep with a lower arm of length zero that carries camber changes
Wit_C24 ==
    /\ Returned("_calc_sweep_data")
    /\ args.g.lca_len = D(0, 1)
    /\ args.steps >= 3
    /\ ret.camber_changes[1] # Zero

----------------------------------------------------------------------------
(* The camber series of the table and of the sweep                         *)

\* the camber changes of a table and of a sweep agree sample by sample
SameCamberSeries(table, sw) ==
    /\ Len(table) = Len(sw.camber_changes)
    /\ \A i \in 1..Len(table) : table[i][2] = sw.camber_changes[i]

\* C25: for the same geometry, travel range and sample count N >= 2 the
\* camber change of the i-th row of the camber-gain table equals the i-th
\* camber change of the sweep, for every i.
Thm_C25 ==
    /\ (Returned("_calc_camber_gain") /\ args.steps >= 2) =>
            SameCamberSeries(ret, _calc_sweep_data(args.g, args.travel_range, args.steps))
    /\ (Returned("_calc_sweep_data") /\ args.steps >= 2) =>
            SameCamberSeries(_calc_camber_gain(args.g, args.travel_range, args.steps), ret)

\* a table of at least three rows whose camber changes differ end to end
Wit_C25 ==
    /\ Returned("_calc_camber_gain")
    /\ args.steps >= 3
    /\ ret[1][2] # Zero
    /\ ret[1][2] # ret[args.steps][2]

----------------------------------------------------------------------------
(* The FVSA of a defined instant centre                                    *)

\* C26 as stated: whenever the front solver reports a defined instant centre
\* it reports a defined FVSA, the distance from the contact patch
\* (half_track, 0) to that instant centre (2 decimals), also when the instant
\* centre is the contact patch itself (distance 0).
Cex_C26 ==
    (Returned("_front_view_ic") /\ ~IsNone(ret.ic_x)) =>
        /\ ~IsNone(ret.fvsa)
        /\ ret.fvsa = Some(HypotRound2(RSub(StarX(args), args.g.half_track), StarY(args)))

----------------------------------------------------------------------------
(* The session's authenticated flag                                        *)

Authenticated(s) == SessionTrue(s, "authenticated")

\* the credentials of the event are an entry of the valid-users table
ValidLogin(ev) ==
    /\ ev.click = "Login"
    /\ << ev.login_user, ev.login_pass >> \in ev.valid_users

\* C22: the sidebar and the page router run only when the session's
\* authenticated flag is True; the flag starts False, becomes True only
\* through a Login click whose username is a key of the valid-users table
\* and whose password is that user's (a failed login leaves it False), and
\* Logout sets it back to False so that the next run shows only the login
\* form.
Thm_C22 ==
    [][fn' = "app" =>
        /\ (ret'.sidebar \/ ret'.routed # "") => Authenticated(session)
        /\ ~Authenticated(session) => (ret'.login_form /\ ~ret'.sidebar /\ ret'.routed = "")
        /\ pc = "start" => ~Authenticated(session')
        /\ (~Authenticated(session) /\ Authenticated(session')) =>
                (ValidLogin(args') /\ session'["current_user"] = args'.login_user)
        /\ (args'.click = "Login" /\ ~ValidLogin(args')) => (~Authenticated(session') /\ ret'.error)
        /\ args'.click = "Logout" => (~Authenticated(session') /\ pc' = "rerun")]_vars

\* crew1 logged in with the stored password and the router ran a page
Wit_C22 ==
    /\ fn = "app"
    /\ Authenticated(session)
    /\ session["current_user"] = "crew1"
    /\ ret.sidebar
    /\ ret.routed = "Race Day Log"

----------------------------------------------------------------------------
(* The read cache and the writes                                           *)

WriteOps == { "append_row", "update_row", "delete_row", "update_row_partial" }

\* what a read of the worksheet gives now
Fresh(sheet_key) == _cached_read_sheet(sheets[sheet_key])

StaleRead ==
    /\ fn = "read_sheet"
    /\ ret # Fresh(args.sheet_key)

----------------------------------------------------------------------------
(* Deleting a tire and its registrations                                   *)

\* the rows of the grid without the row at position i
WithoutRow(grid, i) == [k \in 1..(Len(grid) - 1) |-> IF k < i THEN grid[k] ELSE grid[k + 1]]

\* the inventory lost one row of the tire and nothing else
TireRowGone(old, new, tire_number) ==
    \E i \in 2..Len(old) :
        /\ old[i][1] = tire_number
        /\ new = get_all_values(WithoutRow(old, i))

\* the registrations lost the rows of the tire and no other row
OnlyItsRegistrationsGone(old, new, tire_number) ==
    new = get_all_values(SelectSeq(old, LAMBDA r : r[1] # tire_number))

\* C23 as stated: deleting a tire removes that tire's row and every
\* registration row whose tire_number is the deleted tire's number, and
\* removes no registration of any other tire.
Cex_C23 ==
    [][fn' = "delete_tire" =>
        /\ TireRowGone(sheets["tires"], sheets'["tires"], args'.del_sel)
        /\ OnlyItsRegistrationsGone(sheets["tire_reg"], sheets'["tire_reg"], args'.del_sel)]_vars

NoBlankRow(grid) == \A i \in 1..Len(grid) : ~IsBlankRow(grid[i])

\* the same on sheets that hold no blank row above their last row
HoldsWithoutBlankRows ==
    [][(fn' = "delete_tire" /\ NoBlankRow(sheets["tires"]) /\ NoBlankRow(sheets["tire_reg"])) =>
        /\ TireRowGone(sheets["tires"], sheets'["tires"], args'.del_sel)
        /\ OnlyItsRegistrationsGone(sheets["tire_reg"], sheets'["tire_reg"], args'.del_sel)]_vars

----------------------------------------------------------------------------
(* Two sessions writing to one sheet                                       *)

\* a row of the grid carries the key
HasKey(grid, key) ==
    /\ Len(grid) >= 2
    /\ \E i \in 1..Len(grid[1]) : grid[1][i] = "date"
    /\ \E i \in 1..Len(grid[1]) : grid[1][i] = "track"
    /\ \E r \in 2..Len(grid) : KeyAt(grid, r) = key

BothAppended ==
    \A s \in Sessions : session[s].op = "append_row" /\ session[s].pc = "done"

\* C27 as stated: when two sessions call append_row on the same table at
\* overlapping times, also on a table that is still empty, both appended
\* rows are in the table afterwards.
Cex_C27 ==
    BothAppended => \A s \in Sessions : HasKey(sheets.race_day, KeyOf(s))

\* C28 as stated: under any interleaving with another session's append_row
\* or delete_row, the upsert writes only to a row whose (date, track) is its
\* own key.
Cex_C28 ==
    [][(fn' = "ws.update" /\ args'.op = "upsert_race_day" /\ args'.at = "update_row") =>
        /\ args'.row_index <= Len(sheets.race_day)
        /\ KeyAt(sheets.race_day, args'.row_index) = << args'.date_str, args'.track >>]_vars

----------------------------------------------------------------------------
(* A header row with an unnamed column between named ones: the calls of    *)
(* utils/gsheet_db.py and _ensure_headers of views/roll_centres.py on the  *)
(* roll_centres worksheet                                                  *)

MaxHeaderRows == 2

\* a column inserted after column k and left unnamed
WithGap(row, k) == SubSeq(row, 1, k) \o << "" >> \o SubSeq(row, k + 1, Len(row))

GapAfter == 3

LegacyWidth == Len(ALL_HEADERS) - 3

\* the sheet as found: the full header row, the header row of an older
\* version, and each of them with an unnamed column
HeadersWith(a) ==
    { << ALL_HEADERS, a >>,
      << WithGap(ALL_HEADERS, GapAfter), WithGap(a, GapAfter) >>,
      << SubSeq(ALL_HEADERS, 1, LegacyWidth), SubSeq(a, 1, LegacyWidth) >>,
      << WithGap(SubSeq(ALL_HEADERS, 1, LegacyWidth), GapAfter), WithGap(SubSeq(a, 1, LegacyWidth), GapAfter) >> }

StoredHeaders == UNION { HeadersWith(a) : a \in { CellsOf[PageInputs("Car A", D(11, 2))] } }

InitHeaders ==
    /\ fn = "closed"
    /\ args = None
    /\ pc = "open"
    /\ ret = None
    /\ \E ws \in StoredHeaders : sheets = [NoSheets EXCEPT !.roll_centres = ws]
    /\ retry = NoRetry
    /\ session = NoSession
    /\ cache = NoCache

\* _ensure_headers(ws)
EnsureHeaders ==
    /\ fn' = "_ensure_headers"
    /\ args' = None
    /\ sheets' = [sheets EXCEPT !.roll_centres = _ensure_headers(@)]
    /\ UNCHANGED << pc, ret, retry, session, cache >>

\* append_row("roll_centres", row_data)
AppendUnderHeaders ==
    /\ Len(sheets.roll_centres) <= MaxHeaderRows
    /\ \E inp \in SaveInputs :
       \E row_data \in { RowOf(inp) } :
        /\ fn' = "append_row"
        /\ args' = [row_data |-> row_data, row_index |-> Len(sheets.roll_centres) + 1]
        /\ sheets' = [sheets EXCEPT !.roll_centres = append_row(@, row_data)]
    /\ UNCHANGED << pc, ret, retry, session, cache >>

\* update_row("roll_centres", row_index, row_data)
UpdateUnderHeaders ==
    /\ \E inp \in SaveInputs, row_index \in 2..Len(sheets.roll_centres) :
       \E row_data \in { RowOf(inp) } :
        /\ fn' = "update_row"
        /\ args' = [row_data |-> row_data, row_index |-> row_index]
        /\ sheets' = [sheets EXCEPT !.roll_centres = update_row(@, row_index, row_data)]
    /\ UNCHANGED << pc, ret, retry, session, cache >>

NextHeaders ==
    \/ EnsureHeaders
    \/ AppendUnderHeaders
    \/ UpdateUnderHeaders

SpecHeaders == InitHeaders /\ [][NextHeaders]_vars

----------------------------------------------------------------------------
(* C29: rows and headers stay aligned under any header row                 *)

Named(h) == Strip(h) # ""

\* every value of row_data stands in the column whose header is its key
UnderItsHeader(headers, cells, row_data) ==
    \A i \in 1..Len(headers) :
        (Named(headers[i]) /\ DictHas(row_data, headers[i]))
            => /\ i <= Len(cells)
               /\ cells[i] = PyStr(DictGet(row_data, headers[i], PyText("")))

\* every named header of the old row is where it was
HeadersKept(old, new) ==
    \A i \in 1..Len(old) : Named(old[i]) => i <= Len(new) /\ new[i] = old[i]

\* the headers of ALL_HEADERS the row lacks
MissingFrom(headers) == { ALL_HEADERS[i] : i \in { j \in 1..Len(ALL_HEADERS) : ~InSeq(ALL_HEADERS[j], headers) } }

\* C29: under every header row, one with blank cells between named
\* headers included, append_row and update_row place each value in the
\* column whose header equals its key, and _ensure_headers leaves every
\* named header in its column: it adds the missing headers after the last
\* one and writes nothing when none is missing.
Cex_C29 ==
    [][ /\ fn' \in { "append_row", "update_row" }
            => UnderItsHeader(sheets.roll_centres[1],
                              sheets'.roll_centres[args'.row_index],
                              args'.row_data)
        /\ fn' = "_ensure_headers"
            => /\ HeadersKept(sheets.roll_centres[1], sheets'.roll_centres[1])
               /\ MissingFrom(sheets.roll_centres[1]) = {}
                      => sheets'.roll_centres = sheets.roll_centres
               /\ MissingFrom(sheets'.roll_centres[1]) = {} ]_vars

\* no blank cell before a named header
NoGap(headers) == \A i \in 1..Len(headers) : Named(headers[i]) => \A j \in 1..i : Named(headers[j])

\* the same statement for header rows without a blank cell between named
\* headers
HoldsWithoutGaps ==
    [][ NoGap(sheets.roll_centres[1]) =>
        /\ fn' \in { "append_row", "update_row" }
            => UnderItsHeader(sheets.roll_centres[1],
                              sheets'.roll_centres[args'.row_index],
                              args'.row_data)
        /\ fn' = "_ensure_headers"
            => /\ HeadersKept(sheets.roll_centres[1], sheets'.roll_centres[1])
               /\ MissingFrom(sheets.roll_centres[1]) = {}
                      => sheets'.roll_centres = sheets.roll_centres
               /\ MissingFrom(sheets'.roll_centres[1]) = {} ]_vars

----------------------------------------------------------------------------
(* views/race_day_log.py, the View Logs tab: one script run per event of   *)
(* the browser; the reads are taken as fresh                               *)

\* row.get(name, "") on row k of the frame
FrameCell(df, k, name) == IF ColumnOf(df, name) = 0 THEN "" ELSE df.rows[k][ColumnOf(df, name)]

\* the label of row k: its date and track, then its chassis and its
\* feature finish
LabelOf(df, k) ==
    << FrameCell(df, k, "date"), FrameCell(df, k, "track"),
       FrameCell(df, k, "chassis"), FrameCell(df, k, "feature_finish") >>

\* df.iloc[::-1]: the frame row behind option i
NewestFirst(df, i) == Len(df.rows) + 1 - i

Options(df) == [i \in 1..Len(df.rows) |-> LabelOf(df, NewestFirst(df, i))]

NoEvent == [click |-> "", label |-> None]

\* st.selectbox(..., key="view_log_select"): the option chosen in the
\* browser, else the one kept in the session, else the first one
Selected(options, ss, ev) ==
    LET kept == IF ev.click = "select" THEN ev.label
                ELSE IF "view_log_select" \in DOMAIN ss THEN Some(ss["view_log_select"])
                ELSE None
    IN  IF ~IsNone(kept) /\ InSeq(Val(kept), options) THEN Val(kept) ELSE options[1]

\* variant: the deletion not held back until "Yes, Delete"
Confirmed_AtOnce(ss, ev) == SessionTrue(ss, "confirm_delete") /\ ev.click \in { "Yes", "Delete" }

\* the confirmation is shown and "Yes, Delete" was pressed in it
Confirmed(ss, ev) == SessionTrue(ss, "confirm_delete") /\ ev.click = "Yes"

\* one run of the tab on the worksheet ws, read as the frame df, with the
\* session state ss
ViewLogs(ws, df, ss, ev) ==
        IF df.rows = <<>>
        THEN [ws |-> ws, session |-> ss, shown |-> "empty", options |-> <<>>, selected |-> None, deleted |-> None]
        ELSE LET options   == Options(df)
                 selected  == Selected(options, ss, ev)
                 sel_row   == NewestFirst(df, IndexOf(options, selected))
                 sel_date  == FrameCell(df, sel_row, "date")
                 sel_track == FrameCell(df, sel_row, "track")
                 ss1       == SessionSet(ss, "view_log_select", selected)
                 ss2       == IF ev.click = "Delete" THEN SessionSet(ss1, "confirm_delete", TRUE) ELSE ss1
                 row_idx   == find_race_day(ws, sel_date, sel_track).row_index
                 out       == [ws |-> ws, session |-> ss2, shown |-> "list", options |-> options,
                               selected |-> Some(<< sel_date, sel_track >>), deleted |-> None]
             IN  IF ~SessionTrue(ss2, "confirm_delete") THEN out
                 ELSE IF Confirmed(ss2, ev)
                 THEN [out EXCEPT !.ws = IF IsNone(row_idx) THEN ws ELSE delete_row(ws, Val(row_idx)),
                                  !.session = SessionPop(ss2, "confirm_delete"),
                                  !.shown = "rerun",
                                  !.deleted = row_idx]
                 ELSE IF ev.click = "Cancel"
                 THEN [out EXCEPT !.session = SessionPop(ss2, "confirm_delete"), !.shown = "rerun"]
                 ELSE [out EXCEPT !.shown = "confirm"]

InitViewLogs ==
    /\ fn = "closed"
    /\ args = [click |-> "", label |-> None, selected |-> None, asked_for |-> None]
    /\ pc = "closed"
    /\ ret = None
    /\ \E ws \in StoredRaceDays \cup SharedRaceDays : sheets = [NoSheets EXCEPT !.race_day = ws]
    /\ retry = NoRetry
    /\ session = NoSession
    /\ cache = NoCache

\* the script run that the event ev starts; asked_for keeps the race day
\* that was selected at the last "Delete This Race Day"
RunViewLogs(ev) ==
    \E ws \in { ensure_race_day_headers(sheets.race_day, RACE_DAY_HEADERS) } :
    \E df \in { read_sheet(ws) } :
    \E out \in { ViewLogs(ws, df, session, ev) } :
        /\ fn' = "render"
        /\ args' = [click |-> ev.click, label |-> ev.label, selected |-> out.selected,
                    asked_for |-> IF ev.click = "Delete" THEN out.selected ELSE args.asked_for]
        /\ pc' = out.shown
        /\ ret' = [options |-> out.options, deleted |-> out.deleted]
        /\ sheets' = [sheets EXCEPT !.race_day = out.ws]
        /\ session' = out.session
        /\ UNCHANGED << retry, cache >>

OpenViewLogs ==
    /\ pc = "closed"
    /\ RunViewLogs(NoEvent)

SelectRaceDay ==
    /\ pc \in { "list", "confirm" }
    /\ \E i \in 1..Len(ret.options) : RunViewLogs([click |-> "select", label |-> Some(ret.options[i])])

DeleteThisRaceDay ==
    /\ pc \in { "list", "confirm" }
    /\ RunViewLogs([click |-> "Delete", label |-> None])

YesDelete ==
    /\ pc = "confirm"
    /\ RunViewLogs([click |-> "Yes", label |-> None])

CancelDelete ==
    /\ pc = "confirm"
    /\ RunViewLogs([click |-> "Cancel", label |-> None])

RerunViewLogs ==
    /\ pc = "rerun"
    /\ RunViewLogs(NoEvent)

NextViewLogs ==
    \/ OpenViewLogs
    \/ SelectRaceDay
    \/ DeleteThisRaceDay
    \/ YesDelete
    \/ CancelDelete
    \/ RerunViewLogs

SpecViewLogs == InitViewLogs /\ [][NextViewLogs]_vars

----------------------------------------------------------------------------
(* C30: deleting a race day in the View Logs tab                           *)

Pending(ss) == SessionTrue(ss, "confirm_delete")

\* the data rows that hold the race day key
RowsOf(grid, key) ==
    IF Len(grid) < 2 THEN {} ELSE { r \in 2..Len(grid) : KeyAt(grid, r) = key }

\* grid without the first row that holds key, grid itself when none does
WithoutRaceDay(grid, key) ==
    IF RowsOf(grid, key) = {} THEN grid ELSE WithoutRow(grid, Least(RowsOf(grid, key)))

\* a row goes only on "Yes, Delete" with the confirmation pending, the
\* confirmation becomes pending only on "Delete This Race Day", and
\* "Cancel" clears it and leaves the sheet alone
DeleteThenYes ==
    /\ Len(sheets'.race_day) < Len(sheets.race_day)
           => args'.click = "Yes" /\ Pending(session) /\ ~IsNone(args.asked_for)
    /\ (~Pending(session) /\ Pending(session')) => args'.click = "Delete"
    /\ args'.click = "Cancel" => ~Pending(session') /\ sheets' = sheets

\* C30 as stated: a row is deleted only after "Delete This Race Day"
\* followed by "Yes, Delete", "Cancel" clears the pending confirmation
\* without deleting, and the race day removed on "Yes, Delete" is the one
\* that was selected when "Delete This Race Day" was pressed, also when
\* the selection was changed in between.
Cex_C30 ==
    [][ /\ DeleteThenYes
        /\ args'.click = "Yes"
               => sheets'.race_day = WithoutRaceDay(sheets.race_day, Val(args'.asked_for)) ]_vars

\* C30, amended: a row is deleted only after "Delete This Race Day"
\* followed by "Yes, Delete", "Cancel" clears the pending confirmation
\* without deleting, and the race day removed on "Yes, Delete" is the one
\* selected when "Yes, Delete" is pressed, the one the warning names: a
\* change of the selection while the confirmation is pending moves the
\* confirmation to the new selection.
Thm_C30 ==
    [][ /\ DeleteThenYes
        /\ args'.click = "Yes"
               => /\ ~Pending(session')
                  /\ sheets'.race_day = WithoutRaceDay(sheets.race_day, Val(args'.selected)) ]_vars

\* "Yes, Delete" has removed a race day other than the one selected at
\* "Delete This Race Day"
Wit_C30 ==
    /\ fn = "render"
    /\ args.click = "Yes"
    /\ ~IsNone(ret.deleted)
    /\ args.asked_for # args.selected

====
